---------------------------- MODULE Spec2Model ----------------------------
(***************************************************************************)
(* A model of the hierarchical finite-state-machine runtime of fsm.c /     *)
(* fsm.h: the graph builder (fsmCreateState ... fsmCatchTransition), and   *)
(* the execution engine (fsmSetStartState, fsmExecute) driving one         *)
(* FSM_OBJECT_STATE over a graph the builder produced.                     *)
(*                                                                         *)
(* Function pointers are modelled by small integers, NULL by 0.  A state's *)
(* entry / exit function is identified with the state that owns it, so a   *)
(* state stores only whether the pointer is non-NULL.  Condition and       *)
(* action functions are application code: what each returns in one         *)
(* fsmExecute call is an input of that call (the oracle orc).  malloc is   *)
(* taken to succeed.                                                       *)
(***************************************************************************)
EXTENDS Integers, Sequences, FiniteSets, TLC

(***************************************************************************)
(* Program constants (fsm.h, fsm.c).                                       *)
(***************************************************************************)
FSM_MAX_STATE_NEST_DEPTH == 4
FSM_ST_SAME == -1
FSM_ST_PARENT == -2
FSM_ST_ANY == -3
FSM_CATCH_TRANSITION == -1
NULL == 0

eFSM_RESULT_NEW_STATE == "eFSM_RESULT_NEW_STATE"
eFSM_RESULT_NO_CHANGE == "eFSM_RESULT_NO_CHANGE"
eFSM_RESULT_NO_TRANSITION == "eFSM_RESULT_NO_TRANSITION"
eFSM_RESULT_ACTION_FAILURE == "eFSM_RESULT_ACTION_FAILURE"
eFSM_RESULT_INTERNAL_FAILURE == "eFSM_RESULT_INTERNAL_FAILURE"

(***************************************************************************)
(* Bounds of the model.                                                    *)
(***************************************************************************)
MaxStateId == 3
MaxEvent == 2
NumCondFns == 2
NumActFns == 2
\* The builder calls explored from each starting graph, and their arguments.
MaxBuildCalls == 2
MaxBuildId == 1
MaxBuildEvent == 0
\* The fsmExecute calls made in all by the entities that share a graph.
MaxSharedCalls == 2

StateIds == 0..MaxStateId
EventIds == 0..MaxEvent
CondFns == 1..NumCondFns
ActFns == 1..NumActFns

(***************************************************************************)
(* Private list helpers.  A list is a sequence; a pointer into a list is   *)
(* the 1-based position of its object, NULL (0) for none.                  *)
(***************************************************************************)
_fsmAddObjectToList(a_pList, a_pObject) == Append(a_pList, a_pObject)

_fsmGetState(a_pList, a_iStateId) ==
    LET hits == {i \in 1..Len(a_pList) : a_pList[i].iStateId = a_iStateId}
    IN  IF hits = {} THEN NULL
        ELSE CHOOSE i \in hits : \A j \in hits : i <= j

\* The search starts at the object after position a_pFrom (the list head is 0).
_fsmGetTransition(a_pList, a_pFrom, a_iEventId) ==
    LET hits == {i \in (a_pFrom + 1)..Len(a_pList) : a_pList[i].iEventId = a_iEventId}
    IN  IF hits = {} THEN NULL
        ELSE CHOOSE i \in hits : \A j \in hits : i <= j

(***************************************************************************)
(* The builder.  Each operator takes the FSM_CB and returns the FSM_CB     *)
(* after the call together with the call's return value.  A state handle   *)
(* is the position of the FSM_STATE in listStates.                         *)
(***************************************************************************)
fsmCreateFsm == [listStates |-> <<>>, bCreateError |-> FALSE]

NewState(a_iStateId, fpEntry, fpExit, bComplex, iSub) ==
    [iStateId |-> a_iStateId, fpEntryAction |-> fpEntry, fpExitAction |-> fpExit,
     listTransitions |-> <<>>, bComplex |-> bComplex, iInitialSubStateId |-> iSub]

NewTransition(iEventId, listConditions, iNewStateId, bSubState, listActions) ==
    [iEventId |-> iEventId, listConditions |-> listConditions,
     iNewStateId |-> iNewStateId, bSubState |-> bSubState, listActions |-> listActions]

CreateFailed(fsm) == [fsm |-> [fsm EXCEPT !.bCreateError = TRUE], ret |-> NULL]

\* Fault: the state list is not searched for the id.
fsmCreateStateUnchecked(fsm, a_iStateId, fpEntry, fpExit) ==
    IF 0 > a_iStateId THEN CreateFailed(fsm)
    ELSE [fsm |-> [fsm EXCEPT !.listStates =
                      _fsmAddObjectToList(@, NewState(a_iStateId, fpEntry, fpExit,
                                                      FALSE, FSM_ST_SAME))],
          ret |-> Len(fsm.listStates) + 1]

fsmCreateState(fsm, a_iStateId, fpEntry, fpExit) ==
    IF 0 > a_iStateId THEN CreateFailed(fsm)
    ELSE IF _fsmGetState(fsm.listStates, a_iStateId) # NULL THEN CreateFailed(fsm)
    ELSE [fsm |-> [fsm EXCEPT !.listStates =
                      _fsmAddObjectToList(@, NewState(a_iStateId, fpEntry, fpExit,
                                                      FALSE, FSM_ST_SAME))],
          ret |-> Len(fsm.listStates) + 1]

fsmCreateComplexState(fsm, a_iStateId, a_iInitialSubStateId, fpEntry, fpExit) ==
    LET r == fsmCreateState(fsm, a_iStateId, fpEntry, fpExit)
    IN  IF r.ret = NULL THEN r
        ELSE [fsm |-> [r.fsm EXCEPT !.listStates[r.ret].bComplex = TRUE,
                                    !.listStates[r.ret].iInitialSubStateId =
                                          a_iInitialSubStateId],
              ret |-> r.ret]

\* Fault: every call makes a new any-state.
fsmCreateAnyStateAgain(fsm) ==
    [fsm |-> [fsm EXCEPT !.listStates =
                 _fsmAddObjectToList(@, NewState(FSM_ST_ANY, FALSE, FALSE, FALSE, 0))],
     ret |-> Len(fsm.listStates) + 1]

\* The object comes zero-filled from _fsmCreateObject: not complex, substate 0.
fsmCreateAnyState(fsm) ==
    LET l_pState == _fsmGetState(fsm.listStates, FSM_ST_ANY)
    IN  IF l_pState # NULL THEN [fsm |-> fsm, ret |-> l_pState]
        ELSE [fsm |-> [fsm EXCEPT !.listStates =
                          _fsmAddObjectToList(@, NewState(FSM_ST_ANY, FALSE, FALSE,
                                                          FALSE, 0))],
              ret |-> Len(fsm.listStates) + 1]

TransitionFailed(fsm) == [fsm |-> [fsm EXCEPT !.bCreateError = TRUE], ret |-> FALSE]

\* Fault: a transition that is added clears the creation-error flag.
AddTransitionCleared(fsm, hState, tr) ==
    [fsm EXCEPT !.listStates[hState].listTransitions = _fsmAddObjectToList(@, tr),
                !.bCreateError = FALSE]

\* _fsmAddObjectToList(&l_pState->listTransitions, l_pTransition)
AddTransition(fsm, hState, tr) ==
    [fsm EXCEPT !.listStates[hState].listTransitions = _fsmAddObjectToList(@, tr)]

\* a_fpCondition is one condition function or NULL (FSM_NO_CONDITION).
fsmTransition(fsm, hState, a_iEventId, a_fpCondition, a_iNewStateId, actions) ==
    IF hState = NULL THEN [fsm |-> fsm, ret |-> FALSE]
    ELSE IF a_iEventId = FSM_CATCH_TRANSITION \/ a_iNewStateId = FSM_ST_ANY
         THEN TransitionFailed(fsm)
    ELSE [fsm |-> AddTransition(fsm, hState,
                     NewTransition(a_iEventId,
                                   IF a_fpCondition # NULL THEN <<a_fpCondition>> ELSE <<>>,
                                   a_iNewStateId, FALSE, actions)),
          ret |-> TRUE]

fsmTransitionSub(fsm, hState, a_iEventId, a_fpCondition, a_iNewStateId, actions) ==
    IF hState = NULL THEN [fsm |-> fsm, ret |-> FALSE]
    ELSE IF a_iEventId = FSM_CATCH_TRANSITION \/ a_iNewStateId = FSM_ST_ANY
         THEN TransitionFailed(fsm)
    ELSE [fsm |-> AddTransition(fsm, hState,
                     NewTransition(a_iEventId,
                                   IF a_fpCondition # NULL THEN <<a_fpCondition>> ELSE <<>>,
                                   a_iNewStateId, TRUE, actions)),
          ret |-> TRUE]

\* The transition object is linked into the state before the conditions and
\* the new state id are read from the argument list, so a rejected FSM_ST_ANY
\* target leaves it in the list, with its conditions and without actions.
fsmTransitionEx(fsm, hState, a_iEventId, conditions, a_iNewStateId, actions) ==
    IF hState = NULL THEN [fsm |-> fsm, ret |-> FALSE]
    ELSE IF a_iEventId = FSM_CATCH_TRANSITION THEN TransitionFailed(fsm)
    ELSE IF a_iNewStateId = FSM_ST_ANY
         THEN TransitionFailed(AddTransition(fsm, hState,
                  NewTransition(a_iEventId, conditions, a_iNewStateId, FALSE, <<>>)))
    ELSE [fsm |-> AddTransition(fsm, hState,
                     NewTransition(a_iEventId, conditions, a_iNewStateId, FALSE, actions)),
          ret |-> TRUE]

\* Fault: the catch transition is added without looking for an earlier one.
fsmCatchTransitionAgain(fsm, hState, a_iNewStateId, actions) ==
    IF hState = NULL THEN [fsm |-> fsm, ret |-> FALSE]
    ELSE [fsm |-> AddTransition(fsm, hState,
                     NewTransition(FSM_CATCH_TRANSITION, <<>>, a_iNewStateId, FALSE,
                                   actions)),
          ret |-> TRUE]

\* A second catch transition returns FSM_FALSE without touching bCreateError;
\* the new state id is not checked.
fsmCatchTransition(fsm, hState, a_iNewStateId, actions) ==
    IF hState = NULL THEN [fsm |-> fsm, ret |-> FALSE]
    ELSE IF _fsmGetTransition(fsm.listStates[hState].listTransitions, 0,
                              FSM_CATCH_TRANSITION) # NULL
         THEN [fsm |-> fsm, ret |-> FALSE]
    ELSE [fsm |-> AddTransition(fsm, hState,
                     NewTransition(FSM_CATCH_TRANSITION, <<>>, a_iNewStateId, FALSE,
                                   actions)),
          ret |-> TRUE]

fsmHasCreateErrorOccurred(fsm) == fsm.bCreateError

(***************************************************************************)
(* fsmVerifyFsm.  The callback a_fpVerifyCb is modelled by the reports it  *)
(* would receive, in calling order.                                        *)
(***************************************************************************)
eFSM_VERIFY_ERROR_NOENTRY == "eFSM_VERIFY_ERROR_NOENTRY"
eFSM_VERIFY_ERROR_NOEXIT == "eFSM_VERIFY_ERROR_NOEXIT"

_fsmIsStateEntered(a_pFsm, a_iStateId) ==
    \E s \in 1..Len(a_pFsm.listStates) :
        \E t \in 1..Len(a_pFsm.listStates[s].listTransitions) :
            a_pFsm.listStates[s].listTransitions[t].iNewStateId = a_iStateId

\* Fault: a transition back to the state itself counts as an exit.
IsStateExittedBySelf(a_pFsm, a_iStateId) ==
    \E s \in 1..Len(a_pFsm.listStates) :
        /\ a_pFsm.listStates[s].iStateId = a_iStateId
        /\ \E t \in 1..Len(a_pFsm.listStates[s].listTransitions) :
              a_pFsm.listStates[s].listTransitions[t].iNewStateId # FSM_ST_SAME

_fsmIsStateExitted(a_pFsm, a_iStateId) ==
    \E s \in 1..Len(a_pFsm.listStates) :
        /\ a_pFsm.listStates[s].iStateId = a_iStateId
        /\ \E t \in 1..Len(a_pFsm.listStates[s].listTransitions) :
              /\ a_pFsm.listStates[s].listTransitions[t].iNewStateId # a_iStateId
              /\ a_pFsm.listStates[s].listTransitions[t].iNewStateId # FSM_ST_SAME

VerifyReport(id, err) == [id |-> id, err |-> err]

\* fsm.c 323-337: the states, in list order, that no transition enters.
RECURSIVE VerifyEntries(_, _)
VerifyEntries(a_pFsm, s) ==
    IF s > Len(a_pFsm.listStates) THEN <<>>
    ELSE (IF /\ a_pFsm.listStates[s].iStateId # FSM_ST_ANY
             /\ ~_fsmIsStateEntered(a_pFsm, a_pFsm.listStates[s].iStateId)
          THEN <<VerifyReport(a_pFsm.listStates[s].iStateId, eFSM_VERIFY_ERROR_NOENTRY)>>
          ELSE <<>>) \o VerifyEntries(a_pFsm, s + 1)

\* fsm.c 345-366: the transitions, state by state in list order, whose
\* target (an application state id) is never exited.
RECURSIVE VerifyExits(_, _, _)
VerifyExits(a_pFsm, s, t) ==
    IF s > Len(a_pFsm.listStates) THEN <<>>
    ELSE IF t > Len(a_pFsm.listStates[s].listTransitions) THEN VerifyExits(a_pFsm, s + 1, 1)
    ELSE (IF /\ a_pFsm.listStates[s].listTransitions[t].iNewStateId >= 0
             /\ ~_fsmIsStateExitted(a_pFsm,
                                     a_pFsm.listStates[s].listTransitions[t].iNewStateId)
          THEN <<VerifyReport(a_pFsm.listStates[s].listTransitions[t].iNewStateId,
                              eFSM_VERIFY_ERROR_NOEXIT)>>
          ELSE <<>>) \o VerifyExits(a_pFsm, s, t + 1)

VerifyResult(reports) == [ret |-> reports = <<>>, reports |-> reports]

fsmVerifyFsm(a_hFsm) ==
    VerifyResult(VerifyEntries(a_hFsm, 1) \o VerifyExits(a_hFsm, 1, 1))

(***************************************************************************)
(* The application's construction code: a sequence of builder calls, each  *)
(* transition call made on the handle the last create call returned (the   *)
(* l_hState of the examples in fsm.h).                                     *)
(***************************************************************************)
BuilderCall(op, id, sub, entry, exit, ev, conds, to, acts) ==
    [op |-> op, id |-> id, sub |-> sub, entry |-> entry, exit |-> exit,
     ev |-> ev, conds |-> conds, to |-> to, acts |-> acts]

CreateState(id, entry, exit) ==
    BuilderCall("fsmCreateState", id, 0, entry, exit, 0, <<>>, 0, <<>>)
CreateComplexState(id, sub, entry, exit) ==
    BuilderCall("fsmCreateComplexState", id, sub, entry, exit, 0, <<>>, 0, <<>>)
CreateAnyState ==
    BuilderCall("fsmCreateAnyState", 0, 0, FALSE, FALSE, 0, <<>>, 0, <<>>)
Transition(ev, cond, to, acts) ==
    BuilderCall("fsmTransition", 0, 0, FALSE, FALSE, ev,
                IF cond = NULL THEN <<>> ELSE <<cond>>, to, acts)
TransitionSub(ev, cond, to, acts) ==
    BuilderCall("fsmTransitionSub", 0, 0, FALSE, FALSE, ev,
                IF cond = NULL THEN <<>> ELSE <<cond>>, to, acts)
TransitionEx(ev, conds, to, acts) ==
    BuilderCall("fsmTransitionEx", 0, 0, FALSE, FALSE, ev, conds, to, acts)
CatchTransition(to, acts) ==
    BuilderCall("fsmCatchTransition", 0, 0, FALSE, FALSE, 0, <<>>, to, acts)

\* One builder call applied to b = [fsm, hState, errs]: the FSM_CB, the
\* application's current state handle, and the number of calls that
\* returned NULL / FSM_FALSE.
ApplyCall(b, c) ==
    LET cond == IF c.conds = <<>> THEN NULL ELSE c.conds[1]
        r == CASE c.op = "fsmCreateState" ->
                    fsmCreateState(b.fsm, c.id, c.entry, c.exit)
               [] c.op = "fsmCreateComplexState" ->
                    fsmCreateComplexState(b.fsm, c.id, c.sub, c.entry, c.exit)
               [] c.op = "fsmCreateAnyState" ->
                    fsmCreateAnyState(b.fsm)
               [] c.op = "fsmTransition" ->
                    fsmTransition(b.fsm, b.hState, c.ev, cond, c.to, c.acts)
               [] c.op = "fsmTransitionSub" ->
                    fsmTransitionSub(b.fsm, b.hState, c.ev, cond, c.to, c.acts)
               [] c.op = "fsmTransitionEx" ->
                    fsmTransitionEx(b.fsm, b.hState, c.ev, c.conds, c.to, c.acts)
               [] c.op = "fsmCatchTransition" ->
                    fsmCatchTransition(b.fsm, b.hState, c.to, c.acts)
        creates == c.op \in {"fsmCreateState", "fsmCreateComplexState",
                             "fsmCreateAnyState"}
    IN  [fsm |-> r.fsm,
         hState |-> IF creates THEN r.ret ELSE b.hState,
         errs |-> b.errs + (IF r.ret = (IF creates THEN NULL ELSE FALSE) THEN 1 ELSE 0)]

RECURSIVE BuildFrom(_, _, _)
BuildFrom(b, prog, k) ==
    IF k > Len(prog) THEN b ELSE BuildFrom(ApplyCall(b, prog[k]), prog, k + 1)

Build(prog) == BuildFrom([fsm |-> fsmCreateFsm, hState |-> NULL, errs |-> 0], prog, 1)

(***************************************************************************)
(* FSM_OBJECT_STATE and its accessors.                                     *)
(***************************************************************************)
NestSlots == 0..(FSM_MAX_STATE_NEST_DEPTH - 1)

ObjectState(iNestDepth, iNestedStateIds, iPreviousStateId) ==
    [iNestDepth |-> iNestDepth, iNestedStateIds |-> iNestedStateIds,
     iPreviousStateId |-> iPreviousStateId]

\* The content of memory that was never written.
UNINIT == FSM_ST_ANY - 1

\* iNestedStateIds[i].  A slot never written holds an indeterminate value: the
\* read gives the arbitrary ub.val.  An index past the end of the array is
\* undefined behaviour: with ub.alias the access lands on the next member of
\* the struct, iPreviousStateId, otherwise a read gives ub.val and a write is
\* lost.
Indeterminate(v, ub) == IF v = UNINIT THEN ub.val ELSE v

ReadSlot(a_os, i, ub) ==
    IF i \in NestSlots THEN Indeterminate(a_os.iNestedStateIds[i], ub)
    ELSE IF ub.alias THEN Indeterminate(a_os.iPreviousStateId, ub) ELSE ub.val

WriteSlot(a_os, i, v, ub) ==
    IF i \in NestSlots THEN [a_os EXCEPT !.iNestedStateIds[i] = v]
    ELSE IF ub.alias THEN [a_os EXCEPT !.iPreviousStateId = v] ELSE a_os

fsmSetStartStateOp(a_os, a_iStartingStateId, a_iPreviousStateId) ==
    [a_os EXCEPT !.iNestDepth = 0,
                 !.iNestedStateIds[0] = a_iStartingStateId,
                 !.iPreviousStateId = a_iPreviousStateId]

fsmGetCurrentState(a_os, ub) == ReadSlot(a_os, a_os.iNestDepth, ub)

fsmGetCurrentTopLevelState(a_os) == a_os.iNestedStateIds[0]

fsmGetPreviousState(a_os) == a_os.iPreviousStateId

(***************************************************************************)
(* The execution engine.  Every callback the engine invokes is appended to *)
(* the call log: k the kind of callback ("cond", "act", "exit", "entry"),  *)
(* at the nest index of the state it belongs to (AnyAt for the any-state), *)
(* st that state's id, tr the position of the transition in the state's    *)
(* list, fn the function, ret what it returned.  An entry of kind "match"  *)
(* marks the point where a transition is selected for execution.           *)
(***************************************************************************)
AnyAt == FSM_ST_ANY

Call(k, at, st, tr, fn, ret) ==
    [k |-> k, at |-> at, st |-> st, tr |-> tr, fn |-> fn, ret |-> ret]

\* Fault: the return value of an action is ignored.
ActionNeverAborts(tr, ret) == FALSE

\* Fault: a failing action stops the list in a catch transition too.
ActionAbortsInCatch(tr, ret) == ret = FALSE

\* fsm.c 956-965: a failing action stops the list, except in a catch transition.
ActionAborts(tr, ret) == ret = FALSE /\ tr.iEventId # FSM_CATCH_TRANSITION

RECURSIVE RunActions(_, _, _, _, _, _, _)
RunActions(tr, k, orc, at, st, t, calls) ==
    IF k > Len(tr.listActions) THEN [pass |-> TRUE, calls |-> calls]
    ELSE LET fn == tr.listActions[k]
             ret == orc.act[fn]
             c2 == Append(calls, Call("act", at, st, t, fn, ret))
         IN  IF ActionAborts(tr, ret) THEN [pass |-> FALSE, calls |-> c2]
             ELSE RunActions(tr, k + 1, orc, at, st, t, c2)

\* Fault: a target of FSM_ST_SAME is reported as a state change.
TransitionResultIgnoresSame(tr, bActionsPass) ==
    IF ~bActionsPass THEN eFSM_RESULT_ACTION_FAILURE ELSE eFSM_RESULT_NEW_STATE

\* fsm.c 973-983
TransitionResult(tr, bActionsPass) ==
    IF ~bActionsPass THEN eFSM_RESULT_ACTION_FAILURE
    ELSE IF tr.iNewStateId = FSM_ST_SAME THEN eFSM_RESULT_NO_CHANGE
    ELSE eFSM_RESULT_NEW_STATE

TransitionOutcome(tr, r) == [res |-> TransitionResult(tr, r.pass), calls |-> r.calls]

\* fsm.c 925-986
_fsmExecuteTransition(tr, orc, at, st, t, calls) ==
    TransitionOutcome(tr, RunActions(tr, 1, orc, at, st, t, calls))

\* Fault: the return value of a condition is ignored.
ConditionNeverFails(ret) == FALSE

\* fsm.c 1058-1061: a condition returning FSM_FALSE ends the chain.
ConditionFails(ret) == ret = FALSE

\* Every condition of the chain is called, whatever the earlier ones returned.
RECURSIVE RunAllConditions(_, _, _, _, _, _, _)
RunAllConditions(tr, k, orc, at, st, t, calls) ==
    IF k > Len(tr.listConditions) THEN [pass |-> TRUE, calls |-> calls]
    ELSE LET fn == tr.listConditions[k]
             ret == orc.cond[fn]
             rest == RunAllConditions(tr, k + 1, orc, at, st, t,
                                      Append(calls, Call("cond", at, st, t, fn, ret)))
         IN  [pass |-> ret /\ rest.pass, calls |-> rest.calls]

\* fsm.c 1044-1062: the conditions of one transition, from position k.
RECURSIVE RunConditions(_, _, _, _, _, _, _)
RunConditions(tr, k, orc, at, st, t, calls) ==
    IF k > Len(tr.listConditions) THEN [pass |-> TRUE, calls |-> calls]
    ELSE LET fn == tr.listConditions[k]
             ret == orc.cond[fn]
             c2 == Append(calls, Call("cond", at, st, t, fn, ret))
         IN  IF ConditionFails(ret) THEN [pass |-> FALSE, calls |-> c2]
             ELSE RunConditions(tr, k + 1, orc, at, st, t, c2)

\* fsm.c 1087: the catch transition c has run with outcome r2; it is
\* l_pTransition from here on.
CatchOutcome(c, r2) == [res |-> r2.res, tr |-> c, calls |-> r2.calls]

\* Fault: a state's catch transition is never run.
CatchNever(state, t, orc, at, r, c) ==
    IF r.res # eFSM_RESULT_ACTION_FAILURE THEN [res |-> r.res, tr |-> t, calls |-> r.calls]
    ELSE [res |-> r.res, tr |-> NULL, calls |-> r.calls]

\* Fault: the catch transition runs whatever the matched transition returned.
CatchAlways(state, t, orc, at, r, c) ==
    IF c = NULL THEN [res |-> r.res, tr |-> t, calls |-> r.calls]
    ELSE CatchOutcome(c, _fsmExecuteTransition(state.listTransitions[c], orc, at,
                                                state.iStateId, c, r.calls))

\* fsm.c 1082-1089: r is the outcome of the matched transition t, c the
\* state's catch transition (NULL for none), run after an action failure.
CatchFailure(state, t, orc, at, r, c) ==
    IF r.res # eFSM_RESULT_ACTION_FAILURE THEN [res |-> r.res, tr |-> t, calls |-> r.calls]
    ELSE IF c = NULL THEN [res |-> r.res, tr |-> NULL, calls |-> r.calls]
    ELSE CatchOutcome(c, _fsmExecuteTransition(state.listTransitions[c], orc, at,
                                                state.iStateId, c, r.calls))

\* fsm.c 1067-1089: the conditions of transition t have passed: it is the
\* matched transition (noted in the log) and is executed.
ExecuteMatched(state, t, orc, at, calls) ==
    CatchFailure(state, t, orc, at,
                 _fsmExecuteTransition(state.listTransitions[t], orc, at,
                                       state.iStateId, t,
                                       Append(calls, Call("match", at, state.iStateId,
                                                          t, 0, TRUE))),
                 _fsmGetTransition(state.listTransitions, 0, FSM_CATCH_TRANSITION))

\* fsm.c 1037-1090: the transitions for the event, in list order, from the one
\* after position from; the first whose conditions pass is executed.
RECURSIVE SearchTransitions(_, _, _, _, _, _)

\* fsm.c 1064-1072: c is the outcome of transition t's conditions.
AfterConditions(state, t, ev, orc, at, c) ==
    IF ~c.pass THEN SearchTransitions(state, t, ev, orc, at, c.calls)
    ELSE ExecuteMatched(state, t, orc, at, c.calls)

\* fsm.c 1042-1063: t is the next transition for the event (NULL for none).
TryTransition(state, t, ev, orc, at, calls) ==
    IF t = NULL THEN [res |-> eFSM_RESULT_NO_TRANSITION, tr |-> NULL, calls |-> calls]
    ELSE AfterConditions(state, t, ev, orc, at,
                         RunConditions(state.listTransitions[t], 1, orc, at,
                                       state.iStateId, t, calls))

SearchTransitions(state, from, ev, orc, at, calls) ==
    TryTransition(state, _fsmGetTransition(state.listTransitions, from, ev),
                  ev, orc, at, calls)

\* fsm.c 1095-1101: iNewStateId and bSubState are written only when the result
\* is NEW_STATE, from l_pTransition.
StateOutcome(state, r) ==
    [res |-> r.res, calls |-> r.calls,
     iNewStateId |-> IF r.res = eFSM_RESULT_NEW_STATE
                     THEN state.listTransitions[r.tr].iNewStateId ELSE FSM_ST_SAME,
     bSubState |-> IF r.res = eFSM_RESULT_NEW_STATE
                   THEN state.listTransitions[r.tr].bSubState ELSE FALSE]

\* fsm.c 1006-1102
_fsmExecuteState(state, ev, orc, at, calls) ==
    StateOutcome(state, SearchTransitions(state, 0, ev, orc, at, calls))

\* fsm.c 1145: the active nest indices in the order they are searched.
NestSearchOrder(a_os) == [k \in 1..(a_os.iNestDepth + 1) |-> k - 1]

\* What the transition search found: found tells whether a state's transition
\* matched (the break), noState whether the search returned at an id without
\* a state object, depth is l_iStateChangeDepth.
SearchResult(res, found, noState, depth, iNewStateId, bSubState, calls) ==
    [res |-> res, found |-> found, noState |-> noState, depth |-> depth,
     iNewStateId |-> iNewStateId, bSubState |-> bSubState, calls |-> calls]

\* fsm.c 1145-1164: search the active states for a matching transition.
RECURSIVE SearchNest(_, _, _, _, _, _, _, _)

\* fsm.c 1155-1163: r is the outcome of the state at index order[k].
SearchNestNext(a_pFsm, a_os, ev, orc, ub, order, k, r) ==
    IF r.res # eFSM_RESULT_NO_TRANSITION
    THEN SearchResult(r.res, TRUE, FALSE, order[k], r.iNewStateId, r.bSubState, r.calls)
    ELSE SearchNest(a_pFsm, a_os, ev, orc, ub, order, k + 1, r.calls)

\* fsm.c 1147-1154: p is the state object of the id at index order[k].
SearchNestAt(a_pFsm, a_os, ev, orc, ub, order, k, calls, p) ==
    IF p = NULL
    THEN SearchResult(eFSM_RESULT_NO_TRANSITION, FALSE, TRUE, 0, FSM_ST_SAME, FALSE, calls)
    ELSE SearchNestNext(a_pFsm, a_os, ev, orc, ub, order, k,
                        _fsmExecuteState(a_pFsm.listStates[p], ev, orc, order[k], calls))

SearchNest(a_pFsm, a_os, ev, orc, ub, order, k, calls) ==
    IF k > Len(order)
    THEN SearchResult(eFSM_RESULT_NO_TRANSITION, FALSE, FALSE, 0, FSM_ST_SAME, FALSE, calls)
    ELSE SearchNestAt(a_pFsm, a_os, ev, orc, ub, order, k, calls,
                      _fsmGetState(a_pFsm.listStates, ReadSlot(a_os, order[k], ub)))

\* Fault: a match of the any-state is taken as a match at nest index 1.
AnyStateOutcomeInner(n, r) ==
    [n EXCEPT !.res = r.res, !.iNewStateId = r.iNewStateId,
              !.bSubState = r.bSubState, !.calls = r.calls, !.depth = 1]

\* fsm.c 1177: r is the outcome of the any-state; l_iStateChangeDepth keeps
\* its initial 0.
AnyStateOutcome(n, r) ==
    [n EXCEPT !.res = r.res, !.iNewStateId = r.iNewStateId,
              !.bSubState = r.bSubState, !.calls = r.calls]

\* fsm.c 1169-1179: with no match in the nest, try the any-state's transitions.
SearchAnyState(a_pFsm, ev, orc, n) ==
    IF n.res # eFSM_RESULT_NO_TRANSITION
       \/ _fsmGetState(a_pFsm.listStates, FSM_ST_ANY) = NULL
    THEN n
    ELSE AnyStateOutcome(n,
             _fsmExecuteState(a_pFsm.listStates[_fsmGetState(a_pFsm.listStates,
                                                              FSM_ST_ANY)],
                              ev, orc, AnyAt, n.calls))

\* fsm.c 1206
SubStateNestFull(a_os) == a_os.iNestDepth >= FSM_MAX_STATE_NEST_DEPTH

\* Fault: the descent into initial substates stops one level early.
InitialSubStateNestFullEarly(a_os) == a_os.iNestDepth >= FSM_MAX_STATE_NEST_DEPTH - 2

\* fsm.c 1279
InitialSubStateNestFull(a_os) == a_os.iNestDepth >= FSM_MAX_STATE_NEST_DEPTH - 1

\* Fault: the states are exited from the match depth inwards.
ExitOrderOuterFirst(a_os, l_iStateChangeDepth) ==
    [k \in 1..(a_os.iNestDepth - l_iStateChangeDepth + 1) |-> l_iStateChangeDepth + (k - 1)]

\* fsm.c 1213: the nest indices whose states are exited, in calling order.
ExitOrder(a_os, l_iStateChangeDepth) ==
    [k \in 1..(a_os.iNestDepth - l_iStateChangeDepth + 1) |-> a_os.iNestDepth - (k - 1)]

\* Fault: the Exit function is called ahead of the transition's actions.
ExitStatesFirst(a_pFsm, a_os, ub, order, k, calls) ==
    IF k > Len(order) THEN calls
    ELSE << Call("exit", order[k], ReadSlot(a_os, order[k], ub), 0, 0, TRUE) >> \o calls

\* fsm.c 1213-1225
RECURSIVE ExitStates(_, _, _, _, _, _)
ExitStates(a_pFsm, a_os, ub, order, k, calls) ==
    IF k > Len(order) THEN calls
    ELSE LET id == ReadSlot(a_os, order[k], ub)
             p == _fsmGetState(a_pFsm.listStates, id)
         IN  ExitStates(a_pFsm, a_os, ub, order, k + 1,
                        IF p # NULL /\ a_pFsm.listStates[p].fpExitAction
                        THEN Append(calls, Call("exit", order[k], id, 0, 0, TRUE))
                        ELSE calls)

\* Fault: FSM_ST_PARENT does not pop the nest.
DepthAtMatch(a_os, l_iNewStateId, l_iStateChangeDepth) == l_iStateChangeDepth

\* fsm.c 1232-1240: the nest depth after the exits.
DepthAfterExit(a_os, l_iNewStateId, l_iStateChangeDepth) ==
    IF l_iNewStateId = FSM_ST_PARENT
    THEN (IF a_os.iNestDepth > 0 THEN a_os.iNestDepth - 1 ELSE a_os.iNestDepth)
    ELSE l_iStateChangeDepth

\* fsm.c 1254-1291: store the new state at the current depth, call its entry
\* function and descend into the initial substate of a complex state.
RECURSIVE EnterStates(_, _, _, _, _)
EnterStates(a_pFsm, a_os, l_iNewStateId, ub, calls) ==
    LET p == _fsmGetState(a_pFsm.listStates, l_iNewStateId)
        os1 == WriteSlot(a_os, a_os.iNestDepth, l_iNewStateId, ub)
    IN  IF p = NULL THEN [res |-> eFSM_RESULT_NEW_STATE, os |-> os1, calls |-> calls]
        ELSE LET l_pNewState == a_pFsm.listStates[p]
                 c1 == IF l_pNewState.fpEntryAction
                       THEN Append(calls, Call("entry", a_os.iNestDepth, l_iNewStateId,
                                               0, 0, TRUE))
                       ELSE calls
             IN  IF l_pNewState.bComplex /\ l_pNewState.iInitialSubStateId # FSM_ST_SAME
                 THEN IF InitialSubStateNestFull(os1)
                      THEN [res |-> eFSM_RESULT_INTERNAL_FAILURE, os |-> os1, calls |-> c1]
                      ELSE EnterStates(a_pFsm, [os1 EXCEPT !.iNestDepth = @ + 1],
                                       l_pNewState.iInitialSubStateId, ub, c1)
                 ELSE [res |-> eFSM_RESULT_NEW_STATE, os |-> os1, calls |-> c1]

\* fsm.c 1250
EntersNewState(l_iNewStateId) == l_iNewStateId # FSM_ST_PARENT

\* Fault: a sub-state transition exits and replaces like any other.
ChangeStateNoSub(a_pFsm, a_os, n, ub) ==
    LET os0 == [a_os EXCEPT !.iPreviousStateId = ReadSlot(a_os, a_os.iNestDepth, ub)]
        c1 == ExitStates(a_pFsm, os0, ub, ExitOrder(os0, n.depth), 1, n.calls)
        os1 == [os0 EXCEPT !.iNestDepth = DepthAfterExit(os0, n.iNewStateId, n.depth)]
    IN  IF EntersNewState(n.iNewStateId)
        THEN EnterStates(a_pFsm, os1, n.iNewStateId, ub, c1)
        ELSE [res |-> eFSM_RESULT_NEW_STATE, os |-> os1, calls |-> c1]

\* fsm.c 1187-1293: the state change for the match n.
ChangeState(a_pFsm, a_os, n, ub) ==
    LET os0 == [a_os EXCEPT !.iPreviousStateId = ReadSlot(a_os, a_os.iNestDepth, ub)]
    IN  IF n.bSubState
        THEN IF SubStateNestFull(os0)
             THEN [res |-> eFSM_RESULT_INTERNAL_FAILURE, os |-> os0, calls |-> n.calls]
             ELSE LET os1 == [os0 EXCEPT !.iNestDepth = @ + 1]
                  IN  IF EntersNewState(n.iNewStateId)
                      THEN EnterStates(a_pFsm, os1, n.iNewStateId, ub, n.calls)
                      ELSE [res |-> eFSM_RESULT_NEW_STATE, os |-> os1, calls |-> n.calls]
        ELSE LET c1 == ExitStates(a_pFsm, os0, ub, ExitOrder(os0, n.depth), 1, n.calls)
                 os1 == [os0 EXCEPT !.iNestDepth =
                                        DepthAfterExit(os0, n.iNewStateId, n.depth)]
             IN  IF EntersNewState(n.iNewStateId)
                 THEN EnterStates(a_pFsm, os1, n.iNewStateId, ub, c1)
                 ELSE [res |-> eFSM_RESULT_NEW_STATE, os |-> os1, calls |-> c1]

\* Fault: the state change is made after an action failure as well.
AfterSearchUnchecked(a_pFsm, a_os, n, ub) ==
    IF n.res \in {eFSM_RESULT_NEW_STATE, eFSM_RESULT_ACTION_FAILURE}
    THEN ChangeState(a_pFsm, a_os, n, ub)
    ELSE [res |-> n.res, os |-> a_os, calls |-> n.calls]

\* Fault: the current state id is saved as the previous one whatever the result.
AfterSearchSaving(a_pFsm, a_os, n, ub) ==
    IF n.res = eFSM_RESULT_NEW_STATE THEN ChangeState(a_pFsm, a_os, n, ub)
    ELSE [res |-> n.res,
          os |-> [a_os EXCEPT !.iPreviousStateId = ReadSlot(a_os, a_os.iNestDepth, ub)],
          calls |-> n.calls]

\* fsm.c 1187, 1295: n is what the search in the nest and in the any-state
\* found.
AfterSearch(a_pFsm, a_os, n, ub) ==
    IF n.res = eFSM_RESULT_NEW_STATE THEN ChangeState(a_pFsm, a_os, n, ub)
    ELSE [res |-> n.res, os |-> a_os, calls |-> n.calls]

\* Fault: an active id without a state object is passed over and the
\* any-state is tried.
AfterNestAnyState(a_pFsm, a_os, a_iEventId, orc, ub, s) ==
    AfterSearch(a_pFsm, a_os, SearchAnyState(a_pFsm, a_iEventId, orc, s), ub)

\* fsm.c 1148-1149, 1169: s is what the search in the nest found.
AfterNest(a_pFsm, a_os, a_iEventId, orc, ub, s) ==
    IF s.noState THEN [res |-> eFSM_RESULT_NO_TRANSITION, os |-> a_os, calls |-> s.calls]
    ELSE AfterSearch(a_pFsm, a_os, SearchAnyState(a_pFsm, a_iEventId, orc, s), ub)

\* Fault: the event id is not validated.
fsmExecuteAnyEvent(a_pFsm, a_os, a_iEventId, orc, ub) ==
    AfterNest(a_pFsm, a_os, a_iEventId, orc, ub,
              SearchNest(a_pFsm, a_os, a_iEventId, orc, ub, NestSearchOrder(a_os), 1, <<>>))

\* fsm.c 1110-1296.  The value is the returned result, the object state after
\* the call and the callbacks invoked.
fsmExecuteOp(a_pFsm, a_os, a_iEventId, orc, ub) ==
    IF a_iEventId = FSM_CATCH_TRANSITION
    THEN [res |-> eFSM_RESULT_NO_TRANSITION, os |-> a_os, calls |-> <<>>]
    ELSE AfterNest(a_pFsm, a_os, a_iEventId, orc, ub,
                   SearchNest(a_pFsm, a_os, a_iEventId, orc, ub,
                              NestSearchOrder(a_os), 1, <<>>))

(***************************************************************************)
(* The applications whose graphs are driven.  Events and states are small  *)
(* integers, condition and action functions are named by their numbers.    *)
(***************************************************************************)

\* The telephone of fsm.h 52-84: IDLE 0, DIALING 1, ORIGINATING 2, ERROR 3;
\* OFFHOOK / DIGIT 0, TIMEOUT 1, ERROR_TONE 2.
PhoneProgram ==
    << CreateState(0, FALSE, FALSE),
       Transition(0, NULL, 1, <<1>>),
       CatchTransition(3, <<2>>),
       CreateState(1, TRUE, FALSE),
       Transition(0, 2, FSM_ST_SAME, <<2>>),
       Transition(1, 1, 2, <<1, 2>>),
       Transition(1, NULL, 3, <<1>>),
       CreateState(2, TRUE, TRUE),
       Transition(0, NULL, 0, <<>>),
       CreateState(3, TRUE, TRUE),
       Transition(0, NULL, 0, <<>>),
       CreateAnyState,
       Transition(2, NULL, 3, <<1>>) >>

\* Nested states in the manner of fsm.h 102-124: 3 enters the complex state 0
\* (initial substate 1, itself complex with initial substate 2), directly or
\* as a substate of itself; the substates leave with FSM_ST_PARENT.
NestProgram ==
    << CreateState(3, TRUE, TRUE),
       Transition(0, NULL, 0, <<1>>),
       TransitionSub(1, 1, 0, <<>>),
       CreateComplexState(0, 1, TRUE, TRUE),
       Transition(2, 1, 3, <<1>>),
       CreateComplexState(1, 2, TRUE, TRUE),
       Transition(2, 2, FSM_ST_PARENT, <<2>>),
       CatchTransition(FSM_ST_PARENT, <<1>>),
       CreateState(2, TRUE, TRUE),
       Transition(2, NULL, FSM_ST_PARENT, <<>>),
       Transition(1, 2, 1, <<>>),
       CatchTransition(0, <<>>),
       Transition(0, 1, 3, <<1, 2>>) >>

\* A state nesting itself with fsmTransitionSub, and catch transitions that
\* stay (FSM_ST_SAME).
SubProgram ==
    << CreateState(0, TRUE, TRUE),
       TransitionSub(0, NULL, 0, <<1>>),
       TransitionEx(1, <<1, 2>>, FSM_ST_PARENT, <<>>),
       Transition(2, NULL, 1, <<1, 2>>),
       CatchTransition(FSM_ST_SAME, <<1, 2>>),
       CreateState(1, FALSE, TRUE),
       Transition(0, NULL, 0, <<>>),
       TransitionSub(1, NULL, FSM_ST_PARENT, <<>>),
       Transition(2, 1, 1, <<2>>) >>

\* Cyclic initial substates: 0 -> 0, and 2 -> 3 -> 2.
CyclicProgram ==
    << CreateComplexState(0, 0, TRUE, TRUE),
       Transition(0, NULL, 1, <<>>),
       CreateState(1, TRUE, TRUE),
       Transition(0, NULL, 0, <<>>),
       Transition(1, NULL, 2, <<>>),
       CreateComplexState(2, 3, TRUE, FALSE),
       CreateComplexState(3, 2, FALSE, TRUE),
       Transition(2, 1, FSM_ST_PARENT, <<>>) >>

\* State id 3 has no state object and is a target, a substate and an initial
\* substate; the any-state has a catch transition; a catch transition names
\* FSM_ST_ANY.
MissingProgram ==
    << CreateState(0, TRUE, TRUE),
       TransitionEx(0, <<2>>, 3, <<>>),
       TransitionSub(0, NULL, 2, <<>>),
       TransitionSub(1, 1, 3, <<1>>),
       CreateComplexState(1, 3, TRUE, TRUE),
       Transition(0, NULL, 0, <<>>),
       CreateState(2, TRUE, TRUE),
       Transition(0, NULL, 1, <<1>>),
       Transition(2, 1, FSM_ST_PARENT, <<>>),
       CatchTransition(FSM_ST_ANY, <<>>),
       CreateAnyState,
       Transition(2, 2, 0, <<1, 2>>),
       CatchTransition(1, <<2>>),
       Transition(1, NULL, 2, <<>>) >>

\* Construction code that goes on after rejected calls: transitions on the
\* catch event id, a second catch transition, a target of FSM_ST_ANY, a state
\* id created twice (whose NULL handle is then used).
RejectedProgram ==
    << CreateState(0, TRUE, TRUE),
       Transition(FSM_CATCH_TRANSITION, 1, 1, <<1>>),
       TransitionSub(FSM_CATCH_TRANSITION, NULL, 1, <<2>>),
       TransitionEx(FSM_CATCH_TRANSITION, <<1>>, 1, <<1>>),
       Transition(0, NULL, 1, <<1>>),
       CatchTransition(1, <<2>>),
       CatchTransition(0, <<1>>),
       TransitionEx(1, <<2>>, FSM_ST_ANY, <<1>>),
       CreateState(1, TRUE, TRUE),
       Transition(0, 1, 0, <<1, 2>>),
       CatchTransition(FSM_ST_SAME, <<1>>),
       CreateAnyState,
       Transition(2, NULL, 0, <<>>),
       CreateComplexState(0, 1, FALSE, FALSE),
       Transition(1, NULL, 0, <<>>) >>

\* Every target is the id of a state of the graph: two states that push each
\* other as substates with fsmTransitionSub and replace each other with
\* fsmTransition.
PushProgram ==
    << CreateState(0, TRUE, TRUE),
       TransitionSub(0, NULL, 1, <<>>),
       CreateState(1, TRUE, TRUE),
       TransitionSub(0, NULL, 0, <<1>>),
       Transition(1, 1, 0, <<>>) >>

\* The any-state sends every state, nested or not, to the complex state 0.
AnyProgram ==
    << CreateComplexState(0, 1, TRUE, TRUE),
       CreateState(1, TRUE, TRUE),
       CreateAnyState,
       Transition(0, NULL, 0, <<1>>) >>

\* State 0 pushes itself, the complex state 1 or the simple state 2 as a
\* sub-state; states 1 and 2 each have a transition to their own id.
SelfProgram ==
    << CreateState(0, TRUE, TRUE),
       TransitionSub(0, NULL, 0, <<>>),
       TransitionSub(1, 1, 1, <<>>),
       TransitionSub(1, 2, 2, <<>>),
       CreateComplexState(1, 0, TRUE, TRUE),
       Transition(2, NULL, 1, <<1>>),
       CreateState(2, TRUE, TRUE),
       Transition(2, NULL, 2, <<1>>) >>

Programs == {PhoneProgram, NestProgram, SubProgram, CyclicProgram, MissingProgram,
             RejectedProgram, PushProgram, AnyProgram, SelfProgram}

(***************************************************************************)
(* Inputs of the calls.                                                    *)
(***************************************************************************)
\* What each condition and action function returns during one fsmExecute.
Oracles == [cond : [CondFns -> BOOLEAN], act : [ActFns -> BOOLEAN]]

\* Values an uninitialised or out-of-bounds int may hold: a state id, or no
\* state's id.
StrayValues == {0, FSM_ST_SAME}

\* The outcomes of undefined behaviour in one call: only a call made at nest
\* depth FSM_MAX_STATE_NEST_DEPTH-1 or above can reach past iNestedStateIds,
\* and only a call with a never-written active slot reads an indeterminate
\* value.
UBOutcomes(a_os) ==
    IF a_os.iNestDepth >= FSM_MAX_STATE_NEST_DEPTH - 1
    THEN {[alias |-> TRUE, val |-> v] : v \in StrayValues}
         \cup [alias : {FALSE}, val : StrayValues]
    ELSE IF \E i \in 0..a_os.iNestDepth : a_os.iNestedStateIds[i] = UNINIT
    THEN [alias : {TRUE}, val : StrayValues]
    ELSE {[alias |-> TRUE, val |-> 0]}

(***************************************************************************)
(* State: the graph (read-only once built), one entity's object state,     *)
(* where the application stands (pc), and the record of the fsmExecute     *)
(* call that has just returned: its event, the callbacks' answers, the     *)
(* object state before it, its result and its call log, and what the       *)
(* undefined accesses of the call gave (lastUb).                           *)
(***************************************************************************)
VARIABLES hFsm, objectState, pc, lastEvent, lastOracle, lastUb, before,
          lastResult, lastCalls, hState, lastBuild, numBuildCalls, shared, locals

vars == <<hFsm, objectState, pc, lastEvent, lastOracle, lastUb, before,
          lastResult, lastCalls, hState, lastBuild, numBuildCalls, shared, locals>>

\* The entities driven over one graph (variable shared): the
\* FSM_OBJECT_STATE of each (os), the FSM_OBJECT_STATE each has when its
\* calls are made alone on the graph as built (alone), the graph as built,
\* the entity e of the last call with its result and the result of the same
\* call made alone, and the number of calls each has made.
SharedRecord(os, alone, graph, e, res, aloneRes, calls) ==
    [os |-> os, alone |-> alone, graph |-> graph, e |-> e, res |-> res,
     aloneRes |-> aloneRes, calls |-> calls]

NoShared == SharedRecord(<<>>, <<>>, <<>>, 0, "none", "none", <<0, 0>>)

\* The local variables of a running fsmExecute call (variable locals,
\* fsm.c 1119-1126), and the number of states the entry loop has stored so
\* far (levels).
Locals(l_eResult, l_iNestDepthCnt, l_iNewStateId, l_iStateChangeDepth, l_bNewStateIsSubState, levels) ==
    [l_eResult |-> l_eResult, l_iNestDepthCnt |-> l_iNestDepthCnt,
     l_iNewStateId |-> l_iNewStateId, l_iStateChangeDepth |-> l_iStateChangeDepth,
     l_bNewStateIsSubState |-> l_bNewStateIsSubState, levels |-> levels]

NoLocals == Locals(eFSM_RESULT_NO_TRANSITION, 0, FSM_ST_SAME, 0, FALSE, 0)

\* The construction code's variables: the state handle it holds (l_hState),
\* the record of its last builder call, the number of calls made.
build == <<hState, lastBuild, numBuildCalls>>

\* A record of one builder call: the call c, the handle it was made on, the
\* graph it found, the handle it returned (create calls) and whether it
\* succeeded (a handle other than NULL, or FSM_TRUE).
BuildRecord(c, h, fsm, handle, ok) ==
    [c |-> c, hState |-> h, fsm |-> fsm, handle |-> handle, ok |-> ok]

NoBuild(fsm) ==
    BuildRecord(BuilderCall("none", 0, 0, FALSE, FALSE, 0, <<>>, 0, <<>>), NULL, fsm,
                NULL, TRUE)

NoOracle == [cond |-> [f \in CondFns |-> TRUE], act |-> [f \in ActFns |-> TRUE]]

Defined == [alias |-> TRUE, val |-> 0]

\* The graph is built (fsmHasCreateErrorOccurred is for the application to
\* consult: nothing in the engine depends on it); the caller's
\* FSM_OBJECT_STATE is not initialised yet.
Init ==
    /\ \E prog \in Programs : hFsm = Build(prog).fsm /\ hState = Build(prog).hState
    /\ lastBuild = NoBuild(hFsm)
    /\ numBuildCalls = 0
    /\ shared = NoShared
    /\ locals = NoLocals
    /\ objectState = ObjectState(UNINIT, [i \in NestSlots |-> UNINIT], UNINIT)
    /\ pc = "init"
    /\ lastEvent = 0
    /\ lastOracle = NoOracle
    /\ lastUb = Defined
    /\ before = objectState
    /\ lastResult = "none"
    /\ lastCalls = <<>>

fsmSetStartState ==
    /\ pc = "init"
    /\ \E a_iStartingStateId \in StateIds :
          objectState' = fsmSetStartStateOp(objectState, a_iStartingStateId, FSM_ST_SAME)
    /\ pc' = "idle"
    /\ before' = objectState'
    /\ UNCHANGED <<hFsm, lastEvent, lastOracle, lastUb, lastResult, lastCalls>>
    /\ UNCHANGED <<build, shared, locals>>

\* One whole fsmExecute call on the next event.
fsmExecute ==
    /\ pc = "idle"
    /\ \E a_iEventId \in EventIds \cup {FSM_CATCH_TRANSITION}, orc \in Oracles,
          ub \in UBOutcomes(objectState) :
          LET r == fsmExecuteOp(hFsm, objectState, a_iEventId, orc, ub)
          IN  /\ objectState' = r.os
              /\ lastResult' = r.res
              /\ lastCalls' = r.calls
              /\ lastEvent' = a_iEventId
              /\ lastOracle' = orc
              /\ lastUb' = ub
    /\ before' = objectState
    /\ pc' = "returned"
    /\ UNCHANGED hFsm
    /\ UNCHANGED <<build, shared, locals>>

\* The application has taken the result and waits for the next event; the
\* record of the call is dropped.
AwaitEvent ==
    /\ pc = "returned"
    /\ pc' = "idle"
    /\ lastEvent' = 0
    /\ lastOracle' = NoOracle
    /\ lastUb' = Defined
    /\ before' = objectState
    /\ lastResult' = "none"
    /\ lastCalls' = <<>>
    /\ UNCHANGED <<hFsm, objectState>>
    /\ UNCHANGED <<build, shared, locals>>

Next == fsmSetStartState \/ fsmExecute \/ AwaitEvent

Spec == Init /\ [][Next]_vars

Returned == pc = "returned"

TypeOK ==
    /\ pc \in {"init", "idle", "returned"}
    /\ lastResult \in {"none", eFSM_RESULT_NEW_STATE, eFSM_RESULT_NO_CHANGE,
                       eFSM_RESULT_NO_TRANSITION, eFSM_RESULT_ACTION_FAILURE,
                       eFSM_RESULT_INTERNAL_FAILURE}
    /\ objectState.iNestDepth \in {UNINIT} \cup 0..FSM_MAX_STATE_NEST_DEPTH
    /\ hState \in 0..Len(hFsm.listStates)
    /\ numBuildCalls \in 0..MaxBuildCalls
    /\ lastBuild.handle \in 0..Len(hFsm.listStates)

(***************************************************************************)
(* The construction of a graph: builder calls with arguments of every      *)
(* kind (ids below 0 and ids in use, the catch event id, the reserved      *)
(* targets), made on a new graph or after the construction code of one of  *)
(* the programs, and fsmVerifyFsm on what has been built.                  *)
(***************************************************************************)
BuildIds == FSM_ST_SAME..MaxBuildId
BuildEvents == FSM_CATCH_TRANSITION..MaxBuildEvent
BuildTargets == FSM_ST_ANY..MaxBuildId

engine == <<objectState, pc, lastEvent, lastOracle, lastUb, before, lastResult, lastCalls>>

InitBuild ==
    /\ \E prog \in Programs \cup {<<>>} :
          hFsm = Build(prog).fsm /\ hState = Build(prog).hState
    /\ lastBuild = NoBuild(hFsm)
    /\ numBuildCalls = 0
    /\ shared = NoShared
    /\ locals = NoLocals
    /\ objectState = ObjectState(UNINIT, [i \in NestSlots |-> UNINIT], UNINIT)
    /\ pc = "init"
    /\ lastEvent = 0
    /\ lastOracle = NoOracle
    /\ lastUb = Defined
    /\ before = objectState
    /\ lastResult = "none"
    /\ lastCalls = <<>>

IsCreate(c) == c.op \in {"fsmCreateState", "fsmCreateComplexState", "fsmCreateAnyState"}

\* The builder call c made on the handle the application holds; b is what
\* ApplyCall leaves.
Built(c, b) ==
    /\ hFsm' = b.fsm
    /\ hState' = b.hState
    /\ lastBuild' = BuildRecord(c, hState, hFsm, IF IsCreate(c) THEN b.hState ELSE NULL,
                                b.errs = 0)
    /\ numBuildCalls' = numBuildCalls + 1
    /\ UNCHANGED <<engine, shared, locals>>

Calls(c) == Built(c, ApplyCall([fsm |-> hFsm, hState |-> hState, errs |-> 0], c))

CallCreateState ==
    /\ numBuildCalls < MaxBuildCalls
    /\ \E id \in BuildIds, fp \in BOOLEAN : Calls(CreateState(id, fp, fp))

CallCreateComplexState ==
    /\ numBuildCalls < MaxBuildCalls
    /\ \E id \in BuildIds, sub \in 0..MaxBuildId :
          Calls(CreateComplexState(id, sub, TRUE, TRUE))

CallCreateAnyState ==
    /\ numBuildCalls < MaxBuildCalls
    /\ Calls(CreateAnyState)

CallTransition ==
    /\ numBuildCalls < MaxBuildCalls
    /\ \E ev \in BuildEvents, to \in BuildTargets : Calls(Transition(ev, 1, to, <<1>>))

CallTransitionSub ==
    /\ numBuildCalls < MaxBuildCalls
    /\ \E ev \in BuildEvents, to \in BuildTargets : Calls(TransitionSub(ev, NULL, to, <<>>))

CallTransitionEx ==
    /\ numBuildCalls < MaxBuildCalls
    /\ \E ev \in BuildEvents, to \in BuildTargets :
          Calls(TransitionEx(ev, <<1, 2>>, to, <<2>>))

CallCatchTransition ==
    /\ numBuildCalls < MaxBuildCalls
    /\ \E to \in BuildTargets : Calls(CatchTransition(to, <<1>>))

\* fsmVerifyFsm reads the graph and changes nothing.
CallVerifyFsm ==
    /\ lastBuild' = BuildRecord(BuilderCall("fsmVerifyFsm", 0, 0, FALSE, FALSE, 0, <<>>,
                                            0, <<>>),
                                NULL, hFsm, NULL, fsmVerifyFsm(hFsm).ret)
    /\ UNCHANGED <<hFsm, hState, numBuildCalls>>
    /\ UNCHANGED <<engine, shared, locals>>

NextBuild ==
    \/ CallCreateState
    \/ CallCreateComplexState
    \/ CallCreateAnyState
    \/ CallTransition
    \/ CallTransitionSub
    \/ CallTransitionEx
    \/ CallCatchTransition
    \/ CallVerifyFsm

SpecBuild == InitBuild /\ [][NextBuild]_vars

(***************************************************************************)
(* Entities sharing one graph.  The memory fsmExecute works in holds the   *)
(* graph and the FSM_OBJECT_STATE of every entity; the call is given the   *)
(* graph handle and a pointer to one FSM_OBJECT_STATE.                     *)
(***************************************************************************)
Entities == {1, 2}

Memory(graph, os) == [graph |-> graph, os |-> os]

ExecuteOutcome(mem, res) == [mem |-> mem, res |-> res]

\* Fault: the id of the last state exited is kept in one place for all
\* entities.
fsmExecuteOnStatic(mem, e, a_iEventId, orc, ub, r) ==
    ExecuteOutcome(Memory(mem.graph,
                          [i \in Entities |->
                              IF i = e THEN r.os
                              ELSE [mem.os[i] EXCEPT
                                       !.iPreviousStateId = r.os.iPreviousStateId]]),
                   r.res)

\* fsmExecute(graph, &os[e], ...) in memory mem, r being what the call
\* computes from the graph and os[e]: the call writes through a_pObjectState
\* only, and has no static data.
fsmExecuteOn(mem, e, a_iEventId, orc, ub, r) ==
    ExecuteOutcome(Memory(mem.graph, [mem.os EXCEPT ![e] = r.os]), r.res)

\* The callbacks of one call all succeed or all fail, conditions and
\* actions apart.
UniformOracles ==
    {o \in Oracles : (\A f \in CondFns : o.cond[f] = o.cond[1])
                          /\ (\A g \in ActFns : o.act[g] = o.act[1])}

InitShared ==
    /\ \E prog \in Programs :
          /\ hFsm = Build(prog).fsm
          /\ hState = Build(prog).hState
          /\ \E start \in [Entities -> StateIds] :
                shared = SharedRecord(
                    [e \in Entities |->
                        fsmSetStartStateOp(ObjectState(UNINIT, [i \in NestSlots |-> UNINIT],
                                                       UNINIT),
                                           start[e], FSM_ST_SAME)],
                    [e \in Entities |->
                        fsmSetStartStateOp(ObjectState(UNINIT, [i \in NestSlots |-> UNINIT],
                                                       UNINIT),
                                           start[e], FSM_ST_SAME)],
                    Build(prog).fsm, 0, "none", "none", [e \in Entities |-> 0])
    /\ lastBuild = NoBuild(hFsm)
    /\ numBuildCalls = 0
    /\ locals = NoLocals
    /\ objectState = ObjectState(UNINIT, [i \in NestSlots |-> UNINIT], UNINIT)
    /\ pc = "init"
    /\ lastEvent = 0
    /\ lastOracle = NoOracle
    /\ lastUb = Defined
    /\ before = objectState
    /\ lastResult = "none"
    /\ lastCalls = <<>>

\* m is what the call of entity e leaves in the shared memory, a what the
\* same call computes when the entity runs alone.
Executed(e, m, a) ==
    /\ hFsm' = m.mem.graph
    /\ shared' = SharedRecord(m.mem.os, [shared.alone EXCEPT ![e] = a.os], shared.graph, e,
                              m.res, a.res, [shared.calls EXCEPT ![e] = @ + 1])
    /\ UNCHANGED <<engine, build, locals>>

\* One whole fsmExecute call of one of the entities.
fsmExecuteShared ==
    /\ shared.calls[1] + shared.calls[2] < MaxSharedCalls
    /\ \E e \in Entities, a_iEventId \in EventIds \cup {FSM_CATCH_TRANSITION},
          orc \in UniformOracles :
        \E ub \in UBOutcomes(shared.os[e]) :
          Executed(e,
                   fsmExecuteOn(Memory(hFsm, shared.os), e, a_iEventId, orc, ub,
                                fsmExecuteOp(hFsm, shared.os[e], a_iEventId, orc, ub)),
                   fsmExecuteOp(shared.graph, shared.alone[e], a_iEventId, orc, ub))

NextShared == fsmExecuteShared

SpecShared == InitShared /\ [][NextShared]_vars

(***************************************************************************)
(* The call that has just returned, read from its record.                  *)
(***************************************************************************)
Log == 1..Len(lastCalls)

Kind(k) == {n \in Log : lastCalls[n].k = k}

\* The transition a log entry belongs to.
TransitionOf(c) ==
    hFsm.listStates[_fsmGetState(hFsm.listStates, c.st)].listTransitions[c.tr]

HasMatch == Returned /\ Kind("match") # {}

Matched == lastCalls[CHOOSE n \in Kind("match") : TRUE]

\* Every action of transition tr returns FSM_TRUE in this call.
ActionsSucceed(tr) == \A k \in 1..Len(tr.listActions) : lastOracle.act[tr.listActions[k]]

MatchedSucceeds == HasMatch /\ ActionsSucceed(TransitionOf(Matched))

(***************************************************************************)
(* C1.  After fsmSetStartState and any sequence of fsmExecute calls the    *)
(* nest depth iNestDepth is in 0 .. FSM_MAX_STATE_NEST_DEPTH-1, so that    *)
(* iNestedStateIds[iNestDepth] is inside the array.                        *)
(***************************************************************************)
C1_DepthInBounds ==
    pc # "init" => objectState.iNestDepth \in 0..(FSM_MAX_STATE_NEST_DEPTH - 1)

(***************************************************************************)
(* C2.  A sub-state transition matched at nest depth                       *)
(* FSM_MAX_STATE_NEST_DEPTH-1 whose actions all succeed returns            *)
(* eFSM_RESULT_INTERNAL_FAILURE, does not increment the depth and writes   *)
(* no stack slot.                                                          *)
(***************************************************************************)
C2_SubStateAtFullNest ==
    (/\ MatchedSucceeds
     /\ TransitionOf(Matched).bSubState
     /\ before.iNestDepth = FSM_MAX_STATE_NEST_DEPTH - 1)
    => /\ lastResult = eFSM_RESULT_INTERNAL_FAILURE
       /\ objectState.iNestDepth = before.iNestDepth
       /\ objectState.iNestedStateIds = before.iNestedStateIds


(***************************************************************************)
(* fsmExecute statement by statement: one step for each pass through the   *)
(* body of the search loop, of the exit loop and of the entry loop.  The   *)
(* walks over a state's transition list and over a transition's condition  *)
(* and action lists stay inside one step.                                  *)
(***************************************************************************)
Running == {"scan", "any", "change", "exit", "enter", "descend"}

\* return l_eResult
Return(res) ==
    /\ pc' = "returned"
    /\ lastResult' = res

\* fsm.c 1110-1140: the call starts; the catch event id returns at once.
ExecuteBegin ==
    /\ pc = "idle"
    /\ \E a_iEventId \in EventIds \cup {FSM_CATCH_TRANSITION}, orc \in UniformOracles,
          ub \in UBOutcomes(objectState) :
          /\ lastEvent' = a_iEventId
          /\ lastOracle' = orc
          /\ lastUb' = ub
          /\ IF a_iEventId = FSM_CATCH_TRANSITION
             THEN Return(eFSM_RESULT_NO_TRANSITION)
             ELSE pc' = "scan" /\ lastResult' = "none"
    /\ before' = objectState
    /\ lastCalls' = <<>>
    /\ locals' = NoLocals
    /\ UNCHANGED <<hFsm, objectState, build, shared>>

\* fsm.c 1154-1163: r is the outcome of _fsmExecuteState for the state at
\* index l_iNestDepthCnt.
Scanned(r) ==
    /\ lastCalls' = r.calls
    /\ IF r.res # eFSM_RESULT_NO_TRANSITION
       THEN /\ locals' = [locals EXCEPT !.l_eResult = r.res,
                                        !.l_iNewStateId = r.iNewStateId,
                                        !.l_bNewStateIsSubState = r.bSubState,
                                        !.l_iStateChangeDepth = locals.l_iNestDepthCnt]
            /\ pc' = "any"
       ELSE /\ locals' = [locals EXCEPT !.l_iNestDepthCnt = @ + 1]
            /\ pc' = "scan"
    /\ UNCHANGED lastResult

\* fsm.c 1145-1149: p is the state object of the id at index l_iNestDepthCnt.
ScanAt(p) ==
    IF p = NULL
    THEN Return(eFSM_RESULT_NO_TRANSITION) /\ UNCHANGED <<lastCalls, locals>>
    ELSE \E r \in {_fsmExecuteState(hFsm.listStates[p], lastEvent, lastOracle,
                                     locals.l_iNestDepthCnt, lastCalls)} : Scanned(r)

\* fsm.c 1145-1164: one pass through the body of the search loop.
ScanStep ==
    /\ pc = "scan"
    /\ locals.l_iNestDepthCnt <= objectState.iNestDepth
    /\ ScanAt(_fsmGetState(hFsm.listStates,
                           ReadSlot(objectState, locals.l_iNestDepthCnt, lastUb)))
    /\ UNCHANGED <<hFsm, objectState, before, lastEvent, lastOracle, lastUb, build, shared>>

\* fsm.c 1145: the search loop ends without a match.
ScanEnd ==
    /\ pc = "scan"
    /\ locals.l_iNestDepthCnt > objectState.iNestDepth
    /\ pc' = "any"
    /\ UNCHANGED <<hFsm, objectState, before, lastEvent, lastOracle, lastUb, lastResult,
                   lastCalls, locals, build, shared>>

\* fsm.c 1177: r is the outcome of _fsmExecuteState for the any-state.
AnyScanned(r) ==
    /\ lastCalls' = r.calls
    /\ locals' = [locals EXCEPT !.l_eResult = r.res,
                                !.l_iNewStateId =
                                    IF r.res = eFSM_RESULT_NO_TRANSITION THEN @
                                    ELSE r.iNewStateId,
                                !.l_bNewStateIsSubState =
                                    IF r.res = eFSM_RESULT_NO_TRANSITION THEN @
                                    ELSE r.bSubState]

\* fsm.c 1169-1179: with no match in the nest, the any-state is tried.
AnyStep ==
    /\ pc = "any"
    /\ IF /\ locals.l_eResult = eFSM_RESULT_NO_TRANSITION
          /\ _fsmGetState(hFsm.listStates, FSM_ST_ANY) # NULL
       THEN \E r \in {_fsmExecuteState(
                          hFsm.listStates[_fsmGetState(hFsm.listStates, FSM_ST_ANY)],
                          lastEvent, lastOracle, AnyAt, lastCalls)} : AnyScanned(r)
       ELSE UNCHANGED <<lastCalls, locals>>
    /\ pc' = "change"
    /\ UNCHANGED <<hFsm, objectState, before, lastEvent, lastOracle, lastUb, lastResult,
                   build, shared>>

\* fsm.c 1187-1213: without a new state the call returns; otherwise the
\* current state id is saved and a sub-state transition pushes one level.
ChangeStep ==
    /\ pc = "change"
    /\ IF locals.l_eResult # eFSM_RESULT_NEW_STATE
       THEN Return(locals.l_eResult) /\ UNCHANGED <<objectState, locals>>
       ELSE IF locals.l_bNewStateIsSubState
       THEN IF SubStateNestFull(objectState)
            THEN /\ Return(eFSM_RESULT_INTERNAL_FAILURE)
                 /\ objectState' = [objectState EXCEPT !.iPreviousStateId =
                        ReadSlot(objectState, objectState.iNestDepth, lastUb)]
                 /\ UNCHANGED locals
            ELSE /\ objectState' = [objectState EXCEPT
                        !.iPreviousStateId =
                            ReadSlot(objectState, objectState.iNestDepth, lastUb),
                        !.iNestDepth = @ + 1]
                 /\ pc' = "enter"
                 /\ UNCHANGED <<lastResult, locals>>
       ELSE /\ objectState' = [objectState EXCEPT !.iPreviousStateId =
                   ReadSlot(objectState, objectState.iNestDepth, lastUb)]
            /\ locals' = [locals EXCEPT !.l_iNestDepthCnt = objectState.iNestDepth]
            /\ pc' = "exit"
            /\ UNCHANGED lastResult
    /\ UNCHANGED <<hFsm, before, lastEvent, lastOracle, lastUb, lastCalls, build, shared>>

\* fsm.c 1213-1225: one pass through the body of the exit loop.
ExitStep ==
    /\ pc = "exit"
    /\ locals.l_iNestDepthCnt >= locals.l_iStateChangeDepth
    /\ lastCalls' = ExitStates(hFsm, objectState, lastUb, <<locals.l_iNestDepthCnt>>, 1,
                               lastCalls)
    /\ locals' = [locals EXCEPT !.l_iNestDepthCnt = @ - 1]
    /\ UNCHANGED <<hFsm, objectState, pc, before, lastEvent, lastOracle, lastUb,
                   lastResult, build, shared>>

\* fsm.c 1213, 1232-1240: the exit loop ends and the nest depth is set.
ExitEnd ==
    /\ pc = "exit"
    /\ locals.l_iNestDepthCnt < locals.l_iStateChangeDepth
    /\ objectState' = [objectState EXCEPT !.iNestDepth =
                           DepthAfterExit(objectState, locals.l_iNewStateId,
                                          locals.l_iStateChangeDepth)]
    /\ pc' = "enter"
    /\ UNCHANGED <<hFsm, before, lastEvent, lastOracle, lastUb, lastResult, lastCalls,
                   locals, build, shared>>

\* fsm.c 1250: FSM_ST_PARENT enters nothing.
EnterStep ==
    /\ pc = "enter"
    /\ IF EntersNewState(locals.l_iNewStateId)
       THEN pc' = "descend" /\ UNCHANGED lastResult
       ELSE Return(locals.l_eResult)
    /\ UNCHANGED <<hFsm, objectState, before, lastEvent, lastOracle, lastUb, lastCalls,
                   locals, build, shared>>

\* What one pass through the entry loop leaves: the object state, the
\* callbacks made so far, whether the loop goes on (l_bComplexState), the
\* state id to enter next and the result when the call returns.
Descent(os, calls, again, l_iNewStateId, res) ==
    [os |-> os, calls |-> calls, again |-> again, l_iNewStateId |-> l_iNewStateId,
     res |-> res]

\* The Entry function of the state at position p, where it has one, is
\* called for index at.
EntryCalled(a_pFsm, p, at, calls) ==
    IF a_pFsm.listStates[p].fpEntryAction
    THEN Append(calls, Call("entry", at, a_pFsm.listStates[p].iStateId, 0, 0, TRUE))
    ELSE calls

\* Fault: at the nest limit the loop goes on with the initial substate at the
\* same index.
DescendInPlace(a_pFsm, a_os, l_iNewStateId, l_eResult, ub, calls, p) ==
    IF p = NULL
    THEN Descent(WriteSlot(a_os, a_os.iNestDepth, l_iNewStateId, ub), calls, FALSE,
                 l_iNewStateId, l_eResult)
    ELSE IF /\ a_pFsm.listStates[p].bComplex
            /\ a_pFsm.listStates[p].iInitialSubStateId # FSM_ST_SAME
         THEN Descent([WriteSlot(a_os, a_os.iNestDepth, l_iNewStateId, ub)
                          EXCEPT !.iNestDepth =
                              IF InitialSubStateNestFull(a_os) THEN @ ELSE @ + 1],
                      calls, TRUE, a_pFsm.listStates[p].iInitialSubStateId, l_eResult)
         ELSE Descent(WriteSlot(a_os, a_os.iNestDepth, l_iNewStateId, ub),
                      EntryCalled(a_pFsm, p, a_os.iNestDepth, calls), FALSE,
                      l_iNewStateId, l_eResult)

\* fsm.c 1254-1291: one pass through the body of the entry loop; p is the
\* state object of l_iNewStateId.
Descend(a_pFsm, a_os, l_iNewStateId, l_eResult, ub, calls, p) ==
    IF p = NULL
    THEN Descent(WriteSlot(a_os, a_os.iNestDepth, l_iNewStateId, ub), calls, FALSE,
                 l_iNewStateId, l_eResult)
    ELSE IF /\ a_pFsm.listStates[p].bComplex
            /\ a_pFsm.listStates[p].iInitialSubStateId # FSM_ST_SAME
         THEN IF InitialSubStateNestFull(a_os)
              THEN Descent(WriteSlot(a_os, a_os.iNestDepth, l_iNewStateId, ub),
                           EntryCalled(a_pFsm, p, a_os.iNestDepth, calls), FALSE,
                           l_iNewStateId, eFSM_RESULT_INTERNAL_FAILURE)
              ELSE Descent([WriteSlot(a_os, a_os.iNestDepth, l_iNewStateId, ub)
                               EXCEPT !.iNestDepth = @ + 1],
                           EntryCalled(a_pFsm, p, a_os.iNestDepth, calls), TRUE,
                           a_pFsm.listStates[p].iInitialSubStateId, l_eResult)
         ELSE Descent(WriteSlot(a_os, a_os.iNestDepth, l_iNewStateId, ub),
                      EntryCalled(a_pFsm, p, a_os.iNestDepth, calls), FALSE,
                      l_iNewStateId, l_eResult)

\* d is what the pass through the entry loop leaves.
DescentMade(d) ==
    /\ objectState' = d.os
    /\ lastCalls' = d.calls
    /\ locals' = [locals EXCEPT !.l_iNewStateId = d.l_iNewStateId,
                                !.levels = IF @ <= FSM_MAX_STATE_NEST_DEPTH
                                           THEN @ + 1 ELSE @]
    /\ IF d.again THEN pc' = "descend" /\ UNCHANGED lastResult ELSE Return(d.res)

\* fsm.c 1254-1291: one pass through the body of the entry loop.
DescendStep ==
    /\ pc = "descend"
    /\ \E d \in {Descend(hFsm, objectState, locals.l_iNewStateId, locals.l_eResult,
                           lastUb, lastCalls,
                           _fsmGetState(hFsm.listStates, locals.l_iNewStateId))} :
          DescentMade(d)
    /\ UNCHANGED <<hFsm, before, lastEvent, lastOracle, lastUb, build, shared>>

\* The application has taken the result and waits for the next event.
ExecuteEnd ==
    /\ pc = "returned"
    /\ pc' = "idle"
    /\ lastEvent' = 0
    /\ lastOracle' = NoOracle
    /\ lastUb' = Defined
    /\ before' = objectState
    /\ lastResult' = "none"
    /\ lastCalls' = <<>>
    /\ locals' = NoLocals
    /\ UNCHANGED <<hFsm, objectState, build, shared>>

\* The statements of a call that has started.
Statement ==
    \/ ScanStep
    \/ ScanEnd
    \/ AnyStep
    \/ ChangeStep
    \/ ExitStep
    \/ ExitEnd
    \/ EnterStep
    \/ DescendStep

NextSteps == fsmSetStartState \/ ExecuteBegin \/ Statement \/ ExecuteEnd

\* A call runs synchronously to its return: a statement that can be executed
\* is executed.  This is weak fairness of Statement, WF_vars(Statement),
\* written out with ENABLED <<Statement>>_vars as pc \in Running: at every
\* position of a running call exactly one statement can be executed, and it
\* changes pc, a loop counter or the nest depth.
Fairness == []<>(pc \notin Running) \/ []<><<Statement>>_vars

SpecSteps == Init /\ [][NextSteps]_vars /\ Fairness

(***************************************************************************)
(* The graph and the object state as the call found them, and what the     *)
(* documented search would select.                                         *)
(***************************************************************************)
ActiveIndices == 0..before.iNestDepth

RealEvent == lastEvent # FSM_CATCH_TRANSITION

\* The state object of the id at nest index i before the call (NULL for none).
StateAt(i) == _fsmGetState(hFsm.listStates, ReadSlot(before, i, lastUb))

ConditionsPass(tr) ==
    \A k \in 1..Len(tr.listConditions) : lastOracle.cond[tr.listConditions[k]]

\* The transitions of state object p for the event whose conditions all pass.
Passing(p) ==
    {t \in 1..Len(hFsm.listStates[p].listTransitions) :
        /\ hFsm.listStates[p].listTransitions[t].iEventId = lastEvent
        /\ ConditionsPass(hFsm.listStates[p].listTransitions[t])}

PassingAt(i) == StateAt(i) # NULL /\ Passing(StateAt(i)) # {}

Outermost(i) == PassingAt(i) /\ \A k \in 0..(i - 1) : ~PassingAt(k)

SearchCalls == Kind("cond") \cup Kind("match") \cup Kind("act")

(***************************************************************************)
(* C3.  Outer-first matching: when the states at active indices i < j both *)
(* have a transition for the event whose conditions pass (i the outermost  *)
(* such index), the call executes the index-i state's transition and       *)
(* invokes no condition or action of the index-j state's transitions.      *)
(***************************************************************************)
C3_OuterFirst ==
    (Returned /\ RealEvent) =>
        \A i, j \in ActiveIndices :
            (i < j /\ Outermost(i) /\ PassingAt(j))
            => /\ HasMatch
               /\ Matched.at = i
               /\ \A n \in SearchCalls : lastCalls[n].at # j


(***************************************************************************)
(* The matched transition and the state it belongs to.                     *)
(***************************************************************************)
MatchedState == hFsm.listStates[_fsmGetState(hFsm.listStates, Matched.st)]

\* Positions of the matched state's transitions for the event.
SameEvent == {t \in 1..Len(MatchedState.listTransitions) :
                 MatchedState.listTransitions[t].iEventId = lastEvent}

\* The matched state's catch transition (NULL for none).
CatchOfMatched == _fsmGetTransition(MatchedState.listTransitions, 0, FSM_CATCH_TRANSITION)

\* The functions of the log entries of kind k made for transition t of the
\* matched state, in calling order.
IsCallOf(c, k, t) == c.k = k /\ c.at = Matched.at /\ c.tr = t

CallsOf(k, t) == SelectSeq(lastCalls, LAMBDA c : IsCallOf(c, k, t))

FnsCalled(k, t) == [n \in 1..Len(CallsOf(k, t)) |-> CallsOf(k, t)[n].fn]

(***************************************************************************)
(* C4.  Within one state the first transition in declaration order whose   *)
(* event is the event and whose conditions all pass is the one selected:   *)
(* an earlier same-event transition (its conditions fail) has no action    *)
(* run, and no later same-event transition has a condition evaluated or an *)
(* action run.  A state that is the only active one and has such a         *)
(* transition does select one.                                             *)
(***************************************************************************)
C4_FirstPassingSelected ==
    /\ HasMatch =>
          /\ Matched.tr \in Passing(_fsmGetState(hFsm.listStates, Matched.st))
          /\ \A t \in SameEvent :
                /\ t < Matched.tr => ~ConditionsPass(MatchedState.listTransitions[t])
                                     /\ FnsCalled("act", t) = <<>>
                /\ t > Matched.tr => FnsCalled("cond", t) = <<>>
                                     /\ FnsCalled("act", t) = <<>>
    /\ (Returned /\ RealEvent /\ before.iNestDepth = 0 /\ PassingAt(0))
          => HasMatch /\ Matched.at = 0

\* DIALING on TIMEOUT without digits: the second of two same-event
\* transitions, both with actions, is selected.
C4_Witness ==
    /\ HasMatch
    /\ \E t \in SameEvent : t < Matched.tr /\ MatchedState.listTransitions[t].listActions # <<>>
    /\ TransitionOf(Matched).listActions # <<>>
    /\ lastResult = eFSM_RESULT_NEW_STATE

(***************************************************************************)
(* C5.  When an action of the matched transition returns FSM_FALSE the     *)
(* actions after it are not called; if the matched state has no catch      *)
(* transition the call returns eFSM_RESULT_ACTION_FAILURE, calls no Exit   *)
(* or Entry function and leaves the object state unchanged.                *)
(***************************************************************************)
MatchedFails == HasMatch /\ ~ActionsSucceed(TransitionOf(Matched))

\* The position in its list of the first action of tr that fails.
FirstFailing(tr) ==
    CHOOSE k \in 1..Len(tr.listActions) :
        /\ ~lastOracle.act[tr.listActions[k]]
        /\ \A m \in 1..(k - 1) : lastOracle.act[tr.listActions[m]]

C5_ActionFailure ==
    MatchedFails =>
        /\ FnsCalled("act", Matched.tr)
              = SubSeq(TransitionOf(Matched).listActions, 1,
                       FirstFailing(TransitionOf(Matched)))
        /\ CatchOfMatched = NULL =>
              /\ lastResult = eFSM_RESULT_ACTION_FAILURE
              /\ Kind("exit") \cup Kind("entry") = {}
              /\ objectState = before

\* An action fails with another one after it, in a state without a catch
\* transition that has an Entry function.
C5_Witness ==
    /\ MatchedFails
    /\ FirstFailing(TransitionOf(Matched)) < Len(TransitionOf(Matched).listActions)
    /\ CatchOfMatched = NULL
    /\ MatchedState.fpEntryAction
    /\ lastResult = eFSM_RESULT_ACTION_FAILURE


(***************************************************************************)
(* C6.  When an action of the matched transition fails and the matched     *)
(* state has a catch transition, every action of the catch transition is   *)
(* called in declared order whatever the actions return, and the entity    *)
(* moves to the catch transition's target: the result is                   *)
(* eFSM_RESULT_NEW_STATE with the catch target entered, or                 *)
(* eFSM_RESULT_NO_CHANGE with the object state unchanged when the target   *)
(* is FSM_ST_SAME; the failed transition's own target is not entered.      *)
(***************************************************************************)
CaughtFailure == MatchedFails /\ CatchOfMatched # NULL

CatchTarget == MatchedState.listTransitions[CatchOfMatched].iNewStateId

\* l_iStateChangeDepth of the call (fsm.c 1127, 1145).
MatchDepth == IF Matched.at = AnyAt THEN 0 ELSE Matched.at

AllCatchActionsCalled ==
    FnsCalled("act", CatchOfMatched) = MatchedState.listTransitions[CatchOfMatched].listActions

\* State id is stored at the match depth (where that index is inside the
\* stack), its Entry function, if it has one, has been called there, and no
\* other state has been entered at that index or outside it.
EnteredAtMatchDepth(id) ==
    /\ objectState.iNestDepth >= MatchDepth
    /\ MatchDepth \in NestSlots => objectState.iNestedStateIds[MatchDepth] = id
    /\ \A n \in Kind("entry") :
          /\ lastCalls[n].at >= MatchDepth
          /\ lastCalls[n].at = MatchDepth => lastCalls[n].st = id
    /\ (/\ _fsmGetState(hFsm.listStates, id) # NULL
        /\ hFsm.listStates[_fsmGetState(hFsm.listStates, id)].fpEntryAction)
       => \E n \in Kind("entry") : lastCalls[n].at = MatchDepth

\* One level is popped and no state is entered.
PoppedToParent ==
    /\ objectState.iNestDepth
          = (IF before.iNestDepth > 0 THEN before.iNestDepth - 1 ELSE 0)
    /\ objectState.iNestedStateIds = before.iNestedStateIds
    /\ Kind("entry") = {}

\* The claim as stated: every target other than FSM_ST_SAME gives
\* eFSM_RESULT_NEW_STATE.
C6_CatchMovesToTarget ==
    CaughtFailure =>
        /\ AllCatchActionsCalled
        /\ CatchTarget = FSM_ST_SAME =>
              lastResult = eFSM_RESULT_NO_CHANGE /\ objectState = before
        /\ CatchTarget # FSM_ST_SAME =>
              /\ lastResult = eFSM_RESULT_NEW_STATE
              /\ IF CatchTarget = FSM_ST_PARENT THEN PoppedToParent
                 ELSE EnteredAtMatchDepth(CatchTarget)

\* C6 amended: entering the catch target can also end with
\* eFSM_RESULT_INTERNAL_FAILURE, when the descent into the initial substates
\* of a complex target stops at the nest limit; the target is stored and
\* entered at the match depth all the same.  FSM_ST_PARENT pops one level and
\* enters nothing.
C6_CatchOutcome ==
    CaughtFailure =>
        /\ AllCatchActionsCalled
        /\ CatchTarget = FSM_ST_SAME =>
              lastResult = eFSM_RESULT_NO_CHANGE /\ objectState = before
        /\ CatchTarget = FSM_ST_PARENT =>
              lastResult = eFSM_RESULT_NEW_STATE /\ PoppedToParent
        /\ CatchTarget \notin {FSM_ST_SAME, FSM_ST_PARENT} =>
              /\ EnteredAtMatchDepth(CatchTarget)
              /\ \/ lastResult = eFSM_RESULT_NEW_STATE
                 \/ /\ lastResult = eFSM_RESULT_INTERNAL_FAILURE
                    /\ objectState.iNestDepth >= FSM_MAX_STATE_NEST_DEPTH - 1

\* IDLE on OFFHOOK with failing actions: the catch action fails too and
\* ERROR is entered.
C6_Witness ==
    /\ CaughtFailure
    /\ CatchTarget \in StateIds
    /\ CatchTarget # TransitionOf(Matched).iNewStateId
    /\ \E n \in Kind("act") : lastCalls[n].tr = CatchOfMatched /\ ~lastCalls[n].ret
    /\ \E n \in Kind("entry") : lastCalls[n].st = CatchTarget
    /\ lastResult = eFSM_RESULT_NEW_STATE


(***************************************************************************)
(* C7.  An any-state transition for the event fires whatever the current   *)
(* state is: whenever no active state has a transition for the event whose *)
(* conditions pass (the active ids may have no state object) and the       *)
(* any-state has one, the call executes the any-state's transition and     *)
(* does not return eFSM_RESULT_NO_TRANSITION.                              *)
(***************************************************************************)
AnyState == _fsmGetState(hFsm.listStates, FSM_ST_ANY)

AnyStateOnly ==
    /\ Returned /\ RealEvent
    /\ \A i \in ActiveIndices : ~PassingAt(i)
    /\ AnyState # NULL /\ Passing(AnyState) # {}

C7_AnyStateFires ==
    AnyStateOnly =>
        /\ HasMatch /\ Matched.at = AnyAt
        /\ lastResult # eFSM_RESULT_NO_TRANSITION

(***************************************************************************)
(* The transition whose target the call moves to: the matched one when its *)
(* actions succeed, the catch transition when they fail.                   *)
(***************************************************************************)
HasEffective == MatchedSucceeds \/ CaughtFailure

Effective ==
    IF MatchedSucceeds THEN TransitionOf(Matched)
    ELSE MatchedState.listTransitions[CatchOfMatched]

\* The nest index at which the target of the effective transition is stored.
EntryDepth == IF Effective.bSubState THEN before.iNestDepth + 1 ELSE MatchDepth

StateOf(id) == hFsm.listStates[_fsmGetState(hFsm.listStates, id)]

IsComplex(id) ==
    /\ id \in StateIds
    /\ _fsmGetState(hFsm.listStates, id) # NULL
    /\ StateOf(id).bComplex
    /\ StateOf(id).iInitialSubStateId # FSM_ST_SAME

IsSimple(id) ==
    /\ id \in StateIds
    /\ _fsmGetState(hFsm.listStates, id) # NULL
    /\ ~StateOf(id).bComplex

\* The ids of the states whose Entry function was called, in calling order.
EntryCalls == SelectSeq(lastCalls, LAMBDA c : c.k = "entry")

Entries == [n \in 1..Len(EntryCalls) |-> EntryCalls[n].st]

HasEntry(id) == StateOf(id).fpEntryAction

(***************************************************************************)
(* C8.  When the target A of the transition is a complex state with        *)
(* initial substate B, B complex with initial substate C, C not complex,   *)
(* and A is entered at nest index d, then afterwards the stack holds       *)
(* A, B, C at d, d+1, d+2, iNestDepth is d+2 and the Entry functions have  *)
(* been called in the order A, B, C.                                       *)
(***************************************************************************)
ChainA == Effective.iNewStateId

ChainB == StateOf(ChainA).iInitialSubStateId

ChainC == StateOf(ChainB).iInitialSubStateId

EntersChain ==
    /\ HasEffective
    /\ IsComplex(ChainA)
    /\ IsComplex(ChainB)
    /\ IsSimple(ChainC)

Descended ==
    /\ lastResult = eFSM_RESULT_NEW_STATE
    /\ EntryDepth + 2 \in NestSlots
    /\ objectState.iNestDepth = EntryDepth + 2
    /\ objectState.iNestedStateIds[EntryDepth] = ChainA
    /\ objectState.iNestedStateIds[EntryDepth + 1] = ChainB
    /\ objectState.iNestedStateIds[EntryDepth + 2] = ChainC
    /\ Entries = SelectSeq(<<ChainA, ChainB, ChainC>>, HasEntry)

\* The claim as stated, for every nest index d.
C8_InitialSubStateDescent == EntersChain => Descended

\* C8 amended: the descent needs d+2 to be a nest index; otherwise the call
\* returns eFSM_RESULT_INTERNAL_FAILURE and C is not entered.
C8_DescentWithinNest ==
    EntersChain =>
        IF EntryDepth + 2 <= FSM_MAX_STATE_NEST_DEPTH - 1
        THEN Descended
        ELSE /\ lastResult = eFSM_RESULT_INTERNAL_FAILURE
             /\ \A n \in Kind("entry") : lastCalls[n].at < EntryDepth + 2

\* Complex state 0 entered as a substate of state 3: the stack becomes
\* 3, 0, 1, 2.
C8_Witness ==
    /\ EntersChain
    /\ ChainA # ChainB /\ ChainB # ChainC /\ ChainA # ChainC
    /\ EntryDepth = 1
    /\ Len(Entries) = 3
    /\ objectState.iNestDepth = FSM_MAX_STATE_NEST_DEPTH - 1

(***************************************************************************)
(* C9.  From the stack A, B (depth 1) a transition that is not a sub-state *)
(* transition, matched at index 1 on B with target FSM_ST_PARENT and       *)
(* succeeding actions, returns eFSM_RESULT_NEW_STATE, calls B's Exit and   *)
(* not A's, calls no Entry function, and leaves depth 0 with slot 0 still  *)
(* A and iPreviousStateId B.                                               *)
(***************************************************************************)
ExitCalls == SelectSeq(lastCalls, LAMBDA c : c.k = "exit")

ParentFromDepthOne ==
    /\ MatchedSucceeds
    /\ before.iNestDepth = 1
    /\ Matched.at = 1
    /\ ~TransitionOf(Matched).bSubState
    /\ TransitionOf(Matched).iNewStateId = FSM_ST_PARENT

C9_ParentPopsOneLevel ==
    ParentFromDepthOne =>
        /\ lastResult = eFSM_RESULT_NEW_STATE
        /\ ExitCalls = IF MatchedState.fpExitAction
                       THEN << Call("exit", 1, Matched.st, 0, 0, TRUE) >>
                       ELSE << >>
        /\ Kind("entry") = {}
        /\ objectState.iNestDepth = 0
        /\ objectState.iNestedStateIds[0] = before.iNestedStateIds[0]
        /\ objectState.iPreviousStateId = Matched.st

\* A and B are different states that both have Exit and Entry functions.
C9_Witness ==
    /\ ParentFromDepthOne
    /\ before.iNestedStateIds[0] # Matched.st
    /\ StateAt(0) # NULL
    /\ hFsm.listStates[StateAt(0)].fpExitAction
    /\ hFsm.listStates[StateAt(0)].fpEntryAction
    /\ MatchedState.fpExitAction
    /\ lastResult = eFSM_RESULT_NEW_STATE

StaysInState ==
    /\ lastResult = eFSM_RESULT_NO_CHANGE
    /\ Kind("exit") \cup Kind("entry") = {}
    /\ objectState = before

\* The claim as stated.
C12_ResultOfSuccess ==
    MatchedSucceeds =>
        IF TransitionOf(Matched).iNewStateId = FSM_ST_SAME
        THEN StaysInState
        ELSE lastResult = eFSM_RESULT_NEW_STATE

\* C12 amended: a target other than FSM_ST_SAME can also end with
\* eFSM_RESULT_INTERNAL_FAILURE, when the nest is found full on the way into
\* the target; the depth is then FSM_MAX_STATE_NEST_DEPTH-1 or more.
C12_ResultOfSuccessOrNestFull ==
    MatchedSucceeds =>
        IF TransitionOf(Matched).iNewStateId = FSM_ST_SAME
        THEN StaysInState
        ELSE \/ lastResult = eFSM_RESULT_NEW_STATE
             \/ /\ lastResult = eFSM_RESULT_INTERNAL_FAILURE
                /\ objectState.iNestDepth >= FSM_MAX_STATE_NEST_DEPTH - 1
                /\ \/ TransitionOf(Matched).bSubState
                   \/ IsComplex(TransitionOf(Matched).iNewStateId)

\* DIALING on DIGIT: an action runs and the state, which has an Entry
\* function, stays.
C12_Witness ==
    /\ MatchedSucceeds
    /\ TransitionOf(Matched).iNewStateId = FSM_ST_SAME
    /\ TransitionOf(Matched).listActions # <<>>
    /\ MatchedState.fpEntryAction
    /\ lastResult = eFSM_RESULT_NO_CHANGE


\* State p (an index of the state list) has a catch transition.
HasCatch(p) ==
    _fsmGetTransition(hFsm.listStates[p].listTransitions, 0, FSM_CATCH_TRANSITION) # NULL

(***************************************************************************)
(* C13.  fsmExecute with the reserved catch event id returns               *)
(* eFSM_RESULT_NO_TRANSITION at once, whatever the graph and the object    *)
(* state: no condition, action, Exit or Entry function is called and the   *)
(* object state is unchanged.                                              *)
(***************************************************************************)
C13_CatchEventRejected ==
    (Returned /\ lastEvent = FSM_CATCH_TRANSITION) =>
        /\ lastResult = eFSM_RESULT_NO_TRANSITION
        /\ lastCalls = <<>>
        /\ objectState = before

\* The catch event arrives while the current state and the any-state both
\* have a catch transition.
C13_Witness ==
    /\ Returned
    /\ lastEvent = FSM_CATCH_TRANSITION
    /\ StateAt(before.iNestDepth) # NULL
    /\ HasCatch(StateAt(before.iNestDepth))
    /\ AnyState # NULL
    /\ HasCatch(AnyState)
    /\ lastResult = eFSM_RESULT_NO_TRANSITION

\* The log entries, in call order, that invoke an action of a catch transition.
CatchActionCalls == {n \in Kind("act") : TransitionOf(lastCalls[n]).iEventId = FSM_CATCH_TRANSITION}

\* Entry m of the log is a failing action of the matched, non-catch transition
\* in the state, at the nest index, of entry n.
FailedBefore(n, m) ==
    /\ m < n
    /\ lastCalls[m].k = "act"
    /\ lastCalls[m].at = lastCalls[n].at
    /\ lastCalls[m].st = lastCalls[n].st
    /\ lastCalls[m].tr = Matched.tr
    /\ lastCalls[m].tr # lastCalls[n].tr
    /\ TransitionOf(lastCalls[m]).iEventId # FSM_CATCH_TRANSITION
    /\ ~lastCalls[m].ret

\* What fsmCatchTransition stores: no condition, not a sub-state transition,
\* one catch transition a state.
OnlyFromCatchBuilder(p) ==
    \A t \in 1..Len(hFsm.listStates[p].listTransitions) :
        hFsm.listStates[p].listTransitions[t].iEventId = FSM_CATCH_TRANSITION =>
            /\ hFsm.listStates[p].listTransitions[t].listConditions = <<>>
            /\ ~hFsm.listStates[p].listTransitions[t].bSubState
            /\ t = _fsmGetTransition(hFsm.listStates[p].listTransitions, 0, FSM_CATCH_TRANSITION)

(***************************************************************************)
(* C14.  A catch transition is executed only after an action failure: an   *)
(* invocation of a catch transition's action comes, in the same fsmExecute *)
(* call, after an action of the matched, non-catch transition of the same  *)
(* state returned FSM_FALSE.  The matched transition is never a catch      *)
(* transition, and the builder calls given the catch event id have stored  *)
(* nothing: the only transitions on that id are those of                   *)
(* fsmCatchTransition.                                                     *)
(***************************************************************************)
C14_CatchOnlyAfterFailure ==
    /\ \A p \in 1..Len(hFsm.listStates) : OnlyFromCatchBuilder(p)
    /\ HasMatch => TransitionOf(Matched).iEventId # FSM_CATCH_TRANSITION
    /\ Returned => \A n \in CatchActionCalls : \E m \in Log : FailedBefore(n, m)

\* A graph whose construction made (rejected) calls with the catch event id:
\* the second action of the matched transition fails and the catch
\* transition's action is invoked.
C14_Witness ==
    /\ hFsm = Build(RejectedProgram).fsm
    /\ CaughtFailure
    /\ Len(TransitionOf(Matched).listActions) = 2
    /\ lastOracle.act[1]
    /\ CatchActionCalls # {}

\* The descent of fsm.c 1257-1291 from state id at nest index d: <<id, d>> of
\* the first id on the way that has no state object, <<>> when the descent
\* ends (or stops at the nest limit) without meeting one.
RECURSIVE MissingOnEntry(_, _)
MissingOnEntry(id, d) ==
    IF _fsmGetState(hFsm.listStates, id) = NULL THEN <<id, d>>
    ELSE IF /\ StateOf(id).bComplex
            /\ StateOf(id).iInitialSubStateId # FSM_ST_SAME
            /\ d < FSM_MAX_STATE_NEST_DEPTH - 1
         THEN MissingOnEntry(StateOf(id).iInitialSubStateId, d + 1)
         ELSE <<>>

\* The call goes on to the state entry of fsm.c 1250: the effective
\* transition names a state, and a sub-state push was not refused.
ReachesEntry ==
    /\ HasEffective
    /\ Effective.iNewStateId \notin {FSM_ST_SAME, FSM_ST_PARENT}
    /\ lastResult \in {eFSM_RESULT_NEW_STATE, eFSM_RESULT_INTERNAL_FAILURE}
    /\ Effective.bSubState => before.iNestDepth < FSM_MAX_STATE_NEST_DEPTH

EntersMissing ==
    /\ ReachesEntry
    /\ MissingOnEntry(Effective.iNewStateId, EntryDepth) # <<>>

MissingId == MissingOnEntry(Effective.iNewStateId, EntryDepth)[1]

MissingDepth == MissingOnEntry(Effective.iNewStateId, EntryDepth)[2]

(***************************************************************************)
(* C15.  When the state being entered, the target of the transition or an  *)
(* initial substate on the descent, has no state object, its id is written *)
(* into the stack at the current depth all the same, no Entry function is  *)
(* called for it, and fsmExecute returns eFSM_RESULT_NEW_STATE.            *)
(***************************************************************************)
C15_MissingStateEntered ==
    EntersMissing =>
        /\ lastResult = eFSM_RESULT_NEW_STATE
        /\ objectState.iNestDepth = MissingDepth
        /\ MissingDepth \in NestSlots
        /\ objectState.iNestedStateIds[MissingDepth] = MissingId
        /\ \A n \in Kind("entry") : lastCalls[n].at < MissingDepth

(***************************************************************************)
(* The builder call that has just returned, read from its record: the      *)
(* graph it found is lastBuild.fsm, the graph it left is hFsm.             *)
(***************************************************************************)
BuildOp == lastBuild.c.op

\* The position in the graph the call found of the state with this id.
FoundState(id) == _fsmGetState(lastBuild.fsm.listStates, id)

RejectedCreate ==
    /\ BuildOp \in {"fsmCreateState", "fsmCreateComplexState"}
    /\ lastBuild.c.id < 0 \/ FoundState(lastBuild.c.id) # NULL

UniqueIds(fsm) ==
    \A i, j \in 1..Len(fsm.listStates) :
        fsm.listStates[i].iStateId = fsm.listStates[j].iStateId => i = j

(***************************************************************************)
(* C16.  fsmCreateState / fsmCreateComplexState with an id below 0 or an   *)
(* id that a state of the graph has returns NULL, sets the creation-error  *)
(* flag and leaves the state list as it was (no state added, none          *)
(* modified); after any sequence of builder calls no two states of the     *)
(* graph have the same id.                                                 *)
(***************************************************************************)
C16_CreateRejectsDuplicates ==
    /\ RejectedCreate =>
          /\ lastBuild.handle = NULL
          /\ fsmHasCreateErrorOccurred(hFsm)
          /\ hFsm.listStates = lastBuild.fsm.listStates
    /\ UniqueIds(hFsm)

\* fsmCreateComplexState on the id of a state that is not complex, in a graph
\* without creation error so far.
C16_Witness ==
    /\ RejectedCreate
    /\ BuildOp = "fsmCreateComplexState"
    /\ lastBuild.c.id >= 0
    /\ ~lastBuild.fsm.listStates[FoundState(lastBuild.c.id)].bComplex
    /\ ~fsmHasCreateErrorOccurred(lastBuild.fsm)
    /\ lastBuild.handle = NULL

IsTransitionCall ==
    BuildOp \in {"fsmTransition", "fsmTransitionSub", "fsmTransitionEx", "fsmCatchTransition"}

AnyStates(fsm) == {i \in 1..Len(fsm.listStates) : fsm.listStates[i].iStateId = FSM_ST_ANY}

\* The call was made on the handle of the any-state.
OnAnyState ==
    /\ lastBuild.hState # NULL
    /\ lastBuild.fsm.listStates[lastBuild.hState].iStateId = FSM_ST_ANY

(***************************************************************************)
(* C17.  fsmCreateAnyState on a graph that has the any-state returns the   *)
(* handle of that state (the one the first call returned) and changes      *)
(* nothing; after any sequence of builder calls the graph has at most one  *)
(* state with id FSM_ST_ANY, and a transition call that succeeds on the    *)
(* handle adds its transition to that one state.                           *)
(***************************************************************************)
C17_AnyStateIdempotent ==
    /\ (BuildOp = "fsmCreateAnyState" /\ FoundState(FSM_ST_ANY) # NULL) =>
          /\ lastBuild.handle = FoundState(FSM_ST_ANY)
          /\ hFsm = lastBuild.fsm
    /\ Cardinality(AnyStates(hFsm)) <= 1
    /\ (IsTransitionCall /\ OnAnyState /\ lastBuild.ok) =>
          /\ AnyStates(hFsm) = {lastBuild.hState}
          /\ Len(hFsm.listStates[lastBuild.hState].listTransitions)
                = Len(lastBuild.fsm.listStates[lastBuild.hState].listTransitions) + 1

\* The application holds the handle of the any-state and calls
\* fsmCreateAnyState again: with other states in the graph, it gets the
\* handle it holds.
C17_Witness ==
    /\ BuildOp = "fsmCreateAnyState"
    /\ OnAnyState
    /\ lastBuild.handle = lastBuild.hState
    /\ Len(hFsm.listStates) > 1

\* The state the call was made on had a catch transition.
SecondCatch ==
    /\ BuildOp = "fsmCatchTransition"
    /\ lastBuild.hState # NULL
    /\ _fsmGetTransition(lastBuild.fsm.listStates[lastBuild.hState].listTransitions, 0,
                          FSM_CATCH_TRANSITION) # NULL

(***************************************************************************)
(* C18.  A second fsmCatchTransition on a state that has a catch           *)
(* transition returns FSM_FALSE and sets the creation-error flag:          *)
(* fsmHasCreateErrorOccurred returns FSM_TRUE afterwards.                  *)
(***************************************************************************)
C18_SecondCatchIsError ==
    SecondCatch =>
        /\ ~lastBuild.ok
        /\ fsmHasCreateErrorOccurred(hFsm)

NoAnyTarget(fsm) ==
    \A i \in 1..Len(fsm.listStates) :
        \A t \in 1..Len(fsm.listStates[i].listTransitions) :
            fsm.listStates[i].listTransitions[t].iNewStateId # FSM_ST_ANY

(***************************************************************************)
(* C19.  After any sequence of builder calls no transition stored in a     *)
(* state's transition list has target FSM_ST_ANY: fsmTransition,           *)
(* fsmTransitionEx, fsmTransitionSub or fsmCatchTransition called (on a    *)
(* state) with target FSM_ST_ANY sets the creation-error flag, returns     *)
(* FSM_FALSE and leaves the state's transition list unchanged.             *)
(***************************************************************************)
C19_NoTransitionToAny ==
    /\ NoAnyTarget(hFsm)
    /\ (IsTransitionCall /\ lastBuild.hState # NULL /\ lastBuild.c.to = FSM_ST_ANY) =>
          /\ ~lastBuild.ok
          /\ fsmHasCreateErrorOccurred(hFsm)
          /\ hFsm.listStates = lastBuild.fsm.listStates

\* The targets of the transitions of the states with this id.
TargetsFrom(fsm, id) ==
    UNION {{fsm.listStates[s].listTransitions[t].iNewStateId :
               t \in 1..Len(fsm.listStates[s].listTransitions)} :
           s \in {i \in 1..Len(fsm.listStates) : fsm.listStates[i].iStateId = id}}

IdsOf(fsm) == {fsm.listStates[s].iStateId : s \in 1..Len(fsm.listStates)}

AllTargets(fsm) == UNION {TargetsFrom(fsm, id) : id \in IdsOf(fsm)}

\* Some state other than the any-state is the target of no transition.
NoEntry(fsm) == IdsOf(fsm) \ (AllTargets(fsm) \cup {FSM_ST_ANY}) # {}

\* Some transition names an application state id whose state (if there is
\* one) has no transition to another state.
NoExit(fsm) ==
    \E id \in AllTargets(fsm) :
        id >= 0 /\ TargetsFrom(fsm, id) \ {id, FSM_ST_SAME} = {}

Reports(id, err) ==
    \E n \in 1..Len(fsmVerifyFsm(hFsm).reports) :
        fsmVerifyFsm(hFsm).reports[n] = VerifyReport(id, err)

ActiveIds(os) == {os.iNestedStateIds[i] : i \in {j \in NestSlots : j <= os.iNestDepth}}

EnteredBy(id) == \E n \in Kind("entry") : lastCalls[n].st = id

(***************************************************************************)
(* C21.  A state that fsmVerifyFsm reports with eFSM_VERIFY_ERROR_NOENTRY  *)
(* is never entered: an fsmExecute call that finds it not active does not  *)
(* leave it active on the stack and does not call its Entry function, so   *)
(* that from any other start state it never becomes active.                *)
(***************************************************************************)
C21_NoEntryNeverEntered ==
    Returned =>
        \A id \in StateIds :
            (Reports(id, eFSM_VERIFY_ERROR_NOENTRY) /\ id \notin ActiveIds(before)) =>
                /\ id \notin ActiveIds(objectState)
                /\ ~EnteredBy(id)

\* The nest indices active when the call was made.
ActiveBefore == {i \in NestSlots : i <= before.iNestDepth}

ExitedAt(i) == \E n \in Kind("exit") : lastCalls[n].at = i

(***************************************************************************)
(* C22.  A state that fsmVerifyFsm reports with eFSM_VERIFY_ERROR_NOEXIT   *)
(* cannot be exited: an fsmExecute call that finds it active at a nest     *)
(* index leaves it active at that index and does not call its Exit         *)
(* function, whichever state's transition the call executes.               *)
(***************************************************************************)
C22_NoExitNeverExited ==
    Returned =>
        \A i \in ActiveBefore :
            (/\ _fsmGetState(hFsm.listStates, before.iNestedStateIds[i]) # NULL
             /\ Reports(before.iNestedStateIds[i], eFSM_VERIFY_ERROR_NOEXIT)) =>
                /\ i <= objectState.iNestDepth
                /\ objectState.iNestedStateIds[i] = before.iNestedStateIds[i]
                /\ ~ExitedAt(i)

AnyMatchedFails == MatchedFails /\ Matched.at = AnyAt

(***************************************************************************)
(* C24.  When the matched transition belongs to the any-state and one of   *)
(* its actions fails, no catch transition is run, whether or not the       *)
(* any-state has one: fsmExecute returns eFSM_RESULT_ACTION_FAILURE and    *)
(* the object state is unchanged.                                          *)
(***************************************************************************)
C24_NoCatchOnAnyState ==
    AnyMatchedFails =>
        /\ CatchActionCalls = {}
        /\ lastResult = eFSM_RESULT_ACTION_FAILURE
        /\ objectState = before

\* C24 amended: the any-state is executed like any other state.  Without a
\* catch transition the call returns eFSM_RESULT_ACTION_FAILURE and changes
\* nothing; with one, every action of the catch transition is called and
\* the call goes to the catch target.
C24_CatchOnAnyState ==
    AnyMatchedFails =>
        IF CatchOfMatched = NULL
        THEN /\ CatchActionCalls = {}
             /\ lastResult = eFSM_RESULT_ACTION_FAILURE
             /\ objectState = before
        ELSE /\ AllCatchActionsCalled
             /\ CatchTarget = FSM_ST_SAME =>
                   lastResult = eFSM_RESULT_NO_CHANGE /\ objectState = before
             /\ CatchTarget # FSM_ST_SAME =>
                   lastResult \in {eFSM_RESULT_NEW_STATE, eFSM_RESULT_INTERNAL_FAILURE}

\* An action of the any-state's transition fails, the any-state's catch
\* transition runs its action and the call moves to the catch target.
C24_Witness ==
    /\ AnyMatchedFails
    /\ CatchOfMatched # NULL
    /\ CatchActionCalls # {}
    /\ lastResult = eFSM_RESULT_NEW_STATE
    /\ objectState # before

\* Some active state has a transition for the event whose conditions pass.
SomeActivePasses == Returned /\ RealEvent /\ \E i \in ActiveIndices : PassingAt(i)

\* The log entries that call a condition or an action of a transition of
\* the any-state.
AnyStateCalls == {n \in Kind("cond") \cup Kind("act") : lastCalls[n].st = FSM_ST_ANY}

(***************************************************************************)
(* C25.  The any-state is consulted only when no active state matched: if  *)
(* some active state has a transition for the event whose conditions pass, *)
(* no condition and no action of a transition of the any-state is called;  *)
(* and when the matched transition of an active state fails in an action   *)
(* and the state has no catch transition, the result is                    *)
(* eFSM_RESULT_ACTION_FAILURE and neither a state further in nor the       *)
(* any-state is tried.                                                     *)
(***************************************************************************)
C25_AnyStateLast ==
    /\ SomeActivePasses => AnyStateCalls = {}
    /\ (MatchedFails /\ Matched.at # AnyAt /\ CatchOfMatched = NULL) =>
          /\ lastResult = eFSM_RESULT_ACTION_FAILURE
          /\ AnyStateCalls = {}
          /\ \A n \in Log : lastCalls[n].at # AnyAt /\ lastCalls[n].at <= Matched.at


\* The functions of the calls of kind k made for transition t of the state at
\* index at, in call order.
RECURSIVE FnsOf(_, _, _, _)
FnsOf(k, at, t, n) ==
    IF n > Len(lastCalls) THEN <<>>
    ELSE IF /\ lastCalls[n].k = k
            /\ lastCalls[n].at = at
            /\ lastCalls[n].tr = t
         THEN <<lastCalls[n].fn>> \o FnsOf(k, at, t, n + 1)
         ELSE FnsOf(k, at, t, n + 1)

\* The condition functions called for the transition of call c.
ConditionsCalled(c) == FnsOf("cond", c.at, c.tr, 1)

\* The condition calls made for a transition are a prefix of its declared
\* conditions, every one but the last returned FSM_TRUE, and the chain
\* stopped early only at a condition that returned FSM_FALSE.
ShortCircuit(declared, called) ==
    /\ Len(called) <= Len(declared)
    /\ called = SubSeq(declared, 1, Len(called))
    /\ \A k \in 1..(Len(called) - 1) : lastOracle.cond[called[k]]
    /\ Len(called) < Len(declared) =>
          /\ Len(called) >= 1
          /\ ~lastOracle.cond[called[Len(called)]]

\* Every declared condition of the transition was called and returned FSM_TRUE.
AllConditionsTrue(declared, called) ==
    /\ called = declared
    /\ \A k \in 1..Len(declared) : lastOracle.cond[declared[k]]

\* C26: a transition's conditions are called in declared order, the first one
\* returning FSM_FALSE ends the chain (no later condition of that transition
\* is called), and the transition is matched and its actions run only if
\* every one of its conditions was called and returned FSM_TRUE.
C26_ConditionsShortCircuit ==
    Returned => \A n \in Log :
        /\ lastCalls[n].k = "cond" =>
              /\ lastCalls[n].ret = lastOracle.cond[lastCalls[n].fn]
              /\ ShortCircuit(TransitionOf(lastCalls[n]).listConditions,
                              ConditionsCalled(lastCalls[n]))
        /\ lastCalls[n].k \in {"match", "act"} =>
              \/ TransitionOf(lastCalls[n]).iEventId = FSM_CATCH_TRANSITION
              \/ AllConditionsTrue(TransitionOf(lastCalls[n]).listConditions,
                                   ConditionsCalled(lastCalls[n]))

\* A transition with two conditions whose first condition returned FSM_FALSE:
\* one condition call was made for it and it did not match.
C26_Witness ==
    /\ Returned
    /\ \E n \in Log :
          /\ lastCalls[n].k = "cond"
          /\ ~lastCalls[n].ret
          /\ Len(TransitionOf(lastCalls[n]).listConditions) = 2
          /\ Len(ConditionsCalled(lastCalls[n])) = 1
          /\ ~(HasMatch /\ Matched.at = lastCalls[n].at /\ Matched.tr = lastCalls[n].tr)

(***************************************************************************)
(* The exits and entries of one call, as seen from outside: the nest       *)
(* indices whose Exit function was called, and the chain of initial        *)
(* substates below the state stored at an index.                           *)
(***************************************************************************)
\* The state at index i before the call exists and has an Exit function.
HasExitAt(i) ==
    /\ StateAt(i) # NULL
    /\ hFsm.listStates[StateAt(i)].fpExitAction

\* The nest indices from..to, innermost first.
Inwards(from, to) == [k \in 1..(from - to + 1) |-> from - (k - 1)]

\* The Exit functions called are those of the states that were at the
\* indices of order, in that order, each once.
ExitsAre(order) ==
    /\ [k \in 1..Len(ExitCalls) |-> ExitCalls[k].at] = SelectSeq(order, HasExitAt)
    /\ \A k \in 1..Len(ExitCalls) :
          ExitCalls[k].st = ReadSlot(before, ExitCalls[k].at, lastUb)

\* The slots d+1..iNestDepth hold the initial substates entered below the
\* state at index d, each the initial substate of the slot above it, and the
\* innermost one has no initial substate of its own unless the nest is full.
SubStatesBelow(d) ==
    /\ objectState.iNestDepth >= d
    /\ \A i \in (d + 1)..objectState.iNestDepth :
          /\ i \in NestSlots
          /\ IsComplex(objectState.iNestedStateIds[i - 1])
          /\ objectState.iNestedStateIds[i]
                = StateOf(objectState.iNestedStateIds[i - 1]).iInitialSubStateId
    /\ objectState.iNestDepth \in NestSlots
    /\ \/ ~IsComplex(objectState.iNestedStateIds[objectState.iNestDepth])
       \/ objectState.iNestDepth = FSM_MAX_STATE_NEST_DEPTH - 1

\* A transition that is not a sub-state transition, with a state id as
\* target, has matched and its actions succeed.
MovesToState ==
    /\ MatchedSucceeds
    /\ ~TransitionOf(Matched).bSubState
    /\ TransitionOf(Matched).iNewStateId >= 0

\* C27: for a non-sub transition with a concrete target T matched at depth d
\* while the depth is n >= d, with succeeding actions, the Exit functions
\* called are those of the states at indices n, n-1, ..., d, in that order,
\* each once and no other; afterwards slots 0..d-1 are unchanged, slot d
\* holds T, and iNestDepth is d plus the number of initial substates entered
\* below T.
C27_ExitsDownToMatchDepth ==
    MovesToState =>
        /\ ExitsAre(Inwards(before.iNestDepth, MatchDepth))
        /\ \A i \in 0..(MatchDepth - 1) :
              objectState.iNestedStateIds[i] = before.iNestedStateIds[i]
        /\ MatchDepth \in NestSlots
        /\ objectState.iNestedStateIds[MatchDepth] = TransitionOf(Matched).iNewStateId
        /\ SubStatesBelow(MatchDepth)

\* A sub-state transition with a state id as target has matched below the
\* last nest index and its actions succeed.
SubMovesToState ==
    /\ MatchedSucceeds
    /\ TransitionOf(Matched).bSubState
    /\ TransitionOf(Matched).iNewStateId >= 0
    /\ before.iNestDepth < FSM_MAX_STATE_NEST_DEPTH - 1

\* The Entry function of state id, where the state exists and has one, is
\* the first Entry function called, at index i; no Entry function is called
\* for an index above i in the nest.
EntryFirstAt(id, i) ==
    /\ \A n \in Kind("entry") : lastCalls[n].at >= i
    /\ \A n \in Kind("entry") : lastCalls[n].at = i => lastCalls[n].st = id
    /\ (_fsmGetState(hFsm.listStates, id) # NULL /\ HasEntry(id)) =>
          /\ EntryCalls # <<>>
          /\ EntryCalls[1].at = i
          /\ EntryCalls[1].st = id

\* C28: for a sub-state transition with a concrete target T taken at depth
\* n < FSM_MAX_STATE_NEST_DEPTH-1 with succeeding actions, no Exit function
\* is called, slots 0..n are unchanged, slot n+1 holds T, T's Entry function
\* is called, and the state that was innermost stays active directly above T.
C28_SubStatePushes ==
    SubMovesToState =>
        /\ Kind("exit") = {}
        /\ \A i \in 0..before.iNestDepth :
              objectState.iNestedStateIds[i] = before.iNestedStateIds[i]
        /\ objectState.iNestDepth >= before.iNestDepth + 1
        /\ objectState.iNestedStateIds[before.iNestDepth + 1]
              = TransitionOf(Matched).iNewStateId
        /\ EntryFirstAt(TransitionOf(Matched).iNewStateId, before.iNestDepth + 1)

\* A sub-state transition taken at depth 1 by a state with an Exit function,
\* to a state that has an Entry function.
C28_Witness ==
    /\ SubMovesToState
    /\ before.iNestDepth = 1
    /\ HasExitAt(1)
    /\ _fsmGetState(hFsm.listStates, TransitionOf(Matched).iNewStateId) # NULL
    /\ HasEntry(TransitionOf(Matched).iNewStateId)
    /\ Kind("entry") # {}
    /\ objectState.iNestDepth = 2

\* A transition that is not a sub-state transition, with target
\* FSM_ST_PARENT, has matched and its actions succeed.
ParentTaken ==
    /\ MatchedSucceeds
    /\ ~TransitionOf(Matched).bSubState
    /\ TransitionOf(Matched).iNewStateId = FSM_ST_PARENT

\* C29: a transition with target FSM_ST_PARENT exits only the innermost
\* nested substate: whatever the depth n and the match depth d <= n, the
\* only Exit function called is that of the state removed from the stack (the
\* one at index n, for n > 0), no state still active after the call received
\* an Exit call, and at n = 0 no Exit function is called.
C29_ParentExitsInnermostOnly ==
    ParentTaken =>
        /\ \A x \in Kind("exit") :
              /\ lastCalls[x].at = before.iNestDepth
              /\ lastCalls[x].at > objectState.iNestDepth
        /\ Len(ExitCalls) <= 1
        /\ (before.iNestDepth > 0 /\ HasExitAt(before.iNestDepth)) => ExitCalls # <<>>
        /\ before.iNestDepth = 0 => ExitCalls = <<>>

\* Every transition target and every initial substate id of the graph is the
\* id of a state object of the graph.
TargetsPresent(fsm) ==
    \A s \in 1..Len(fsm.listStates) :
        /\ \A t \in 1..Len(fsm.listStates[s].listTransitions) :
              /\ fsm.listStates[s].listTransitions[t].iNewStateId >= 0
              /\ _fsmGetState(fsm.listStates,
                              fsm.listStates[s].listTransitions[t].iNewStateId) # NULL
        /\ (/\ fsm.listStates[s].bComplex
            /\ fsm.listStates[s].iInitialSubStateId # FSM_ST_SAME) =>
              _fsmGetState(fsm.listStates, fsm.listStates[s].iInitialSubStateId) # NULL

\* Every index 0..iNestDepth is a slot of iNestedStateIds and holds the id of
\* a state object of the graph.
ActivePresent(os) ==
    \A i \in 0..os.iNestDepth :
        /\ i \in NestSlots
        /\ _fsmGetState(hFsm.listStates, os.iNestedStateIds[i]) # NULL

\* C30: over a graph whose transition targets are all >= 0 and name, like
\* every initial substate id, a state object of the graph, a start state
\* present in the graph leaves every active stack slot (indices
\* 0..iNestDepth) holding the id of a state object of the graph, and every
\* fsmExecute call on such a stack leaves such a stack.  (A start state that
\* is absent is never left, fsm.c 1148-1149, so the stacks with every active
\* slot present are those that come from a present start state.)
C30_ActiveSlotsPresent ==
    (Returned /\ TargetsPresent(hFsm) /\ ActivePresent(before)) =>
        ActivePresent(objectState)

\* C31: whenever fsmExecute returns eFSM_RESULT_NEW_STATE, iPreviousStateId
\* afterwards is the id that was at the top of the stack
\* (iNestedStateIds[iNestDepth]) immediately before the call; whenever it
\* returns NO_CHANGE, NO_TRANSITION or ACTION_FAILURE, iPreviousStateId is
\* unchanged.
C31_PreviousStateId ==
    Returned =>
        /\ lastResult = eFSM_RESULT_NEW_STATE =>
              objectState.iPreviousStateId = ReadSlot(before, before.iNestDepth, lastUb)
        /\ lastResult \in {eFSM_RESULT_NO_CHANGE, eFSM_RESULT_NO_TRANSITION,
                            eFSM_RESULT_ACTION_FAILURE} =>
              objectState.iPreviousStateId = before.iPreviousStateId

(***************************************************************************)
(* The chain of initial substates below a state id: the id itself, its     *)
(* initial substate, that one's initial substate, ...                      *)
(***************************************************************************)
\* The id k links below id (id itself for k = 0); every id above it in the
\* chain is a complex state with an initial substate.
RECURSIVE ChainId(_, _)
ChainId(id, k) == IF k = 0 THEN id ELSE ChainId(StateOf(id).iInitialSubStateId, k - 1)

\* The number of nest levels below id that its chain asks for, counted up to
\* max.
RECURSIVE ChainLen(_, _)
ChainLen(id, max) ==
    IF max = 0 \/ ~IsComplex(id) THEN 0
    ELSE 1 + ChainLen(StateOf(id).iInitialSubStateId, max - 1)

\* The call moves to a state whose chain of initial substates, entered at
\* EntryDepth, asks for a nest index above FSM_MAX_STATE_NEST_DEPTH-1.
ChainOverflows ==
    /\ HasEffective
    /\ Effective.iNewStateId >= 0
    /\ EntryDepth + ChainLen(Effective.iNewStateId, FSM_MAX_STATE_NEST_DEPTH)
          > FSM_MAX_STATE_NEST_DEPTH - 1

\* The ids of the chain entered at indices from..FSM_MAX_STATE_NEST_DEPTH-1.
ChainEntered(id, from) ==
    [k \in 1..(FSM_MAX_STATE_NEST_DEPTH - from) |-> ChainId(id, k - 1)]

\* C32: when entering a complex state's initial-substate chain would need a
\* depth above FSM_MAX_STATE_NEST_DEPTH-1, fsmExecute returns
\* eFSM_RESULT_INTERNAL_FAILURE with iNestDepth no greater than
\* FSM_MAX_STATE_NEST_DEPTH-1, after the Exit calls of the transition and the
\* Entry calls of every level entered before the overflow; the ObjectState
\* keeps the levels entered.
C32_DescentOverflow ==
    ChainOverflows =>
        /\ lastResult = eFSM_RESULT_INTERNAL_FAILURE
        /\ objectState.iNestDepth <= FSM_MAX_STATE_NEST_DEPTH - 1
        /\ IF Effective.bSubState THEN ExitCalls = <<>>
           ELSE ExitsAre(Inwards(before.iNestDepth, MatchDepth))
        /\ Entries = SelectSeq(ChainEntered(Effective.iNewStateId, EntryDepth), HasEntry)
        /\ \A i \in EntryDepth..objectState.iNestDepth :
              objectState.iNestedStateIds[i]
                = ChainId(Effective.iNewStateId, i - EntryDepth)

\* The catch transitions of the state at position s of the graph.
CatchTransitions(fsm, s) ==
    {t \in 1..Len(fsm.listStates[s].listTransitions) :
        fsm.listStates[s].listTransitions[t].iEventId = FSM_CATCH_TRANSITION}

\* fsmTransition, fsmTransitionSub or fsmTransitionEx was called on a state
\* with the catch event id.
CatchEventCall ==
    /\ BuildOp \in {"fsmTransition", "fsmTransitionSub", "fsmTransitionEx"}
    /\ lastBuild.hState # NULL
    /\ lastBuild.c.ev = FSM_CATCH_TRANSITION

\* C33: after any sequence of builder calls every state, the any-state
\* included, has at most one transition whose event id is
\* FSM_CATCH_TRANSITION: fsmTransition, fsmTransitionEx and fsmTransitionSub
\* reject that event id and add nothing, and fsmCatchTransition adds nothing
\* to a state that has a catch transition.
C33_OneCatchPerState ==
    /\ \A s \in 1..Len(hFsm.listStates) : Cardinality(CatchTransitions(hFsm, s)) <= 1
    /\ CatchEventCall =>
          /\ ~lastBuild.ok
          /\ hFsm.listStates = lastBuild.fsm.listStates
    /\ SecondCatch =>
          /\ ~lastBuild.ok
          /\ hFsm.listStates = lastBuild.fsm.listStates

\* A fsmCatchTransition on the any-state, which has a catch transition, was
\* refused after an earlier builder call.
C33_Witness ==
    /\ SecondCatch
    /\ OnAnyState
    /\ numBuildCalls = MaxBuildCalls
    /\ Cardinality(CatchTransitions(hFsm, lastBuild.hState)) = 1

\* C34: the creation-error flag is sticky: when fsmHasCreateErrorOccurred
\* returned FSM_TRUE for the graph before a builder call (or fsmVerifyFsm), it
\* returns FSM_TRUE after it, whether the call succeeded or not; no operation
\* clears it.
C34_CreateErrorSticky ==
    fsmHasCreateErrorOccurred(lastBuild.fsm) => fsmHasCreateErrorOccurred(hFsm)

\* A builder call that failed and set the flag was followed by a transition
\* call that succeeded.
C34_Witness ==
    /\ fsmHasCreateErrorOccurred(lastBuild.fsm)
    /\ numBuildCalls = MaxBuildCalls
    /\ IsTransitionCall
    /\ lastBuild.ok
    /\ hFsm.listStates # lastBuild.fsm.listStates
    /\ fsmHasCreateErrorOccurred(hFsm)

\* C35: every fsmExecute call that returns eFSM_RESULT_NO_TRANSITION or
\* eFSM_RESULT_NO_CHANGE leaves the ObjectState unchanged (iNestDepth, the
\* four stack slots, iPreviousStateId) and calls no Exit and no Entry
\* function.
C35_NoChangeFrame ==
    (Returned /\ lastResult \in {eFSM_RESULT_NO_TRANSITION, eFSM_RESULT_NO_CHANGE}) =>
        /\ objectState = before
        /\ Kind("exit") \cup Kind("entry") = {}

\* A transition to FSM_ST_SAME whose actions ran, taken in a nest, by a state
\* other than the previous one.
C35_Witness ==
    /\ Returned
    /\ lastResult = eFSM_RESULT_NO_CHANGE
    /\ Kind("act") # {}
    /\ before.iNestDepth \in 1..(FSM_MAX_STATE_NEST_DEPTH - 1)
    /\ before.iPreviousStateId # before.iNestedStateIds[before.iNestDepth]

(***************************************************************************)
(* The statement-level call and the call taken as a whole.                 *)
(***************************************************************************)
\* r is what fsmExecuteOp gives for the call that has returned.
AgreesWith(r) ==
    /\ lastResult = r.res
    /\ objectState = r.os
    /\ lastCalls = r.calls

\* A call executed statement by statement returns what fsmExecuteOp gives.
StepsAgree ==
    Returned => AgreesWith(fsmExecuteOp(hFsm, before, lastEvent, lastOracle, lastUb))

\* The entry loop has stored at most FSM_MAX_STATE_NEST_DEPTH states.
BoundedDescent == locals.levels <= FSM_MAX_STATE_NEST_DEPTH

\* The target of the new state heads a chain of initial substates that comes
\* back to a state it has passed: a complex state whose initial substate is
\* itself, or A -> B -> A.
CyclicChain(id) ==
    /\ ChainLen(id, FSM_MAX_STATE_NEST_DEPTH) = FSM_MAX_STATE_NEST_DEPTH
    /\ \E j, k \in 0..FSM_MAX_STATE_NEST_DEPTH : j < k /\ ChainId(id, j) = ChainId(id, k)

\* C36: every fsmExecute call returns, whatever the graph (the callbacks
\* return): a call that has started reaches its return; the entry loop stores
\* at most FSM_MAX_STATE_NEST_DEPTH states, and a call that enters a cyclic
\* chain of initial substates returns eFSM_RESULT_INTERNAL_FAILURE.
C36_ExecuteTerminates ==
    /\ [](pc \in Running => <>(pc = "returned"))
    /\ [](BoundedDescent)
    /\ []((Returned /\ HasEffective /\ CyclicChain(Effective.iNewStateId)) =>
            lastResult = eFSM_RESULT_INTERNAL_FAILURE)

\* A call has entered the chain 2 -> 3 -> 2 -> 3 at index 0 and returned
\* eFSM_RESULT_INTERNAL_FAILURE after four passes through the entry loop.
C36_Witness ==
    /\ Returned
    /\ HasEffective
    /\ CyclicChain(Effective.iNewStateId)
    /\ ChainId(Effective.iNewStateId, 1) # Effective.iNewStateId
    /\ locals.levels = FSM_MAX_STATE_NEST_DEPTH
    /\ lastResult = eFSM_RESULT_INTERNAL_FAILURE
    /\ objectState.iNestDepth = FSM_MAX_STATE_NEST_DEPTH - 1

\* A transition of the any-state that is not a sub-state transition, with a
\* state id as target, has matched and its actions succeed.
AnyStateMoves ==
    /\ MatchedSucceeds
    /\ Matched.st = FSM_ST_ANY
    /\ ~TransitionOf(Matched).bSubState
    /\ TransitionOf(Matched).iNewStateId >= 0

\* C37: when a non-sub transition of the any-state with a concrete target T
\* fires from a stack of depth n, the match depth is 0: the Exit functions
\* called are those of the active states from index n down to index 0,
\* innermost first, and afterwards slot 0 holds T and iNestDepth is the
\* number of initial substates entered below T.
C37_AnyStateExitsAll ==
    AnyStateMoves =>
        /\ ExitsAre(Inwards(before.iNestDepth, 0))
        /\ objectState.iNestedStateIds[0] = TransitionOf(Matched).iNewStateId
        /\ SubStatesBelow(0)

\* The any-state's transition fires from a nest of depth 1 whose two states
\* have Exit functions, into a complex state.
C37_Witness ==
    /\ AnyStateMoves
    /\ Matched.at = AnyAt
    /\ before.iNestDepth = 1
    /\ Len(ExitCalls) = 2
    /\ objectState.iNestDepth = 1
    /\ lastResult = eFSM_RESULT_NEW_STATE

\* The id in slot 0 has no state object in the graph.
OutermostMissing == _fsmGetState(hFsm.listStates, before.iNestedStateIds[0]) = NULL

SelfTransition ==
    /\ MatchedSucceeds
    /\ Matched.at = before.iNestDepth
    /\ Matched.st >= 0
    /\ ~TransitionOf(Matched).bSubState
    /\ TransitionOf(Matched).iNewStateId = Matched.st

\* The state of the matched transition is exited and then entered at the
\* innermost index: its Exit function and its Entry function, where it has
\* them, are the first Exit and the first Entry function called, the slot
\* holds its id and iPreviousStateId is its id.
ReEntered ==
    /\ ExitCalls = IF MatchedState.fpExitAction
                   THEN << Call("exit", Matched.at, Matched.st, 0, 0, TRUE) >>
                   ELSE << >>
    /\ EntryFirstAt(Matched.st, Matched.at)
    /\ Matched.at \in NestSlots
    /\ objectState.iNestedStateIds[Matched.at] = Matched.st
    /\ objectState.iPreviousStateId = Matched.st

\* C39: a non-sub transition whose target is the explicit id of the state it
\* belongs to, matched on the innermost state with succeeding actions, is a
\* state change: fsmExecute returns eFSM_RESULT_NEW_STATE, calls that
\* state's Exit and then its Entry function, leaves the stack slot holding
\* the same id and sets iPreviousStateId to that id.
C39_SelfTransitionReEnters ==
    SelfTransition =>
        /\ lastResult = eFSM_RESULT_NEW_STATE
        /\ ReEntered

=============================================================================
